---- MODULE Spec2Model ----
(***************************************************************************)
(* Model of the recommendation engine of backend/recommender.py: the TTL   *)
(* cache (DataCache), the cached loaders, the collaborative and content    *)
(* scorers, the score combiner and get_recommendations, and the cache      *)
(* management hooks.                                                       *)
(*                                                                         *)
(* Representation.  A Python dict is a function whose DOMAIN is the set of *)
(* stored keys.  time.time() is the variable now (seconds).  Floating      *)
(* point scores are fixed-point integers in units of 1/1000 (a rating of   *)
(* 4.5 is 4500); divisions truncate.                                       *)
(***************************************************************************)
EXTENDS Integers, Sequences, FiniteSets, TLC

VARIABLES
    cache,          \* DataCache.cache: key -> value
    timestamps,     \* DataCache.timestamps: key -> insertion time
    now,            \* time.time()
    op,             \* the last operation performed: its name, arguments and result
    lastSet,        \* history variable: per key, the most recent set() and what followed it
    thr,            \* per request thread: the cache call it is executing and its position
    storeCourses,   \* external store: table courses
    storeCourseTags,\* external store: table course_tag joined with tags
    storeHistory,   \* external store: table history
    storeRatings,   \* external store: table ratings
    storeDown,      \* external store: the tables a query of which fails now
    phase           \* history variable: per user, progress of invalidate -> change -> re-fetch

vars == <<cache, timestamps, now, op, lastSet, thr,
          storeCourses, storeCourseTags, storeHistory, storeRatings, storeDown,
          phase>>

storeVars == <<storeCourses, storeCourseTags, storeHistory, storeRatings, storeDown>>

\* ------------------------------------------------------------------ bounds

\* Seconds by which one Tick advances the clock.
TickUnit == 60
\* Last clock value of the cache-only specifications.
CacheMaxTime == 180

\* Keys, values and ttl arguments used to exercise the DataCache on its own.
Keys == {"k1", "k2"}
Values == {"v1", "v2"}
TTLs == {60, 120}

\* Python's None.
None == "None"

\* ------------------------------------------------------------- DataCache

\* The dict d without key k (del d[k]).
DictDel(d, k) == [x \in (DOMAIN d) \ {k} |-> d[x]]

\* The dict d with d[k] = v.
DictPut(d, k, v) == [x \in (DOMAIN d) \cup {k} |-> IF x = k THEN v ELSE d[x]]

\* The empty dict.
EmptyDict == [x \in {} |-> None]

\* The cache object as a value: both dicts.
CS == [cache |-> cache, timestamps |-> timestamps]

\* Mutant of get: an entry whose age equals ttl exactly is still served.
get_mut_boundary(cs, key, ttl_seconds, t) ==
    IF key \in DOMAIN cs.cache
    THEN IF t - cs.timestamps[key] <= ttl_seconds
         THEN [hit |-> TRUE, val |-> cs.cache[key], cs |-> cs]
         ELSE [hit |-> FALSE, val |-> None,
               cs |-> [cache |-> DictDel(cs.cache, key),
                       timestamps |-> DictDel(cs.timestamps, key)]]
    ELSE [hit |-> FALSE, val |-> None, cs |-> cs]

\* Mutant of get: the lazy eviction deletes the value and keeps the timestamp.
get_mut_evict_value_only(cs, key, ttl_seconds, t) ==
    IF key \in DOMAIN cs.cache
    THEN IF t - cs.timestamps[key] < ttl_seconds
         THEN [hit |-> TRUE, val |-> cs.cache[key], cs |-> cs]
         ELSE [hit |-> FALSE, val |-> None,
               cs |-> [cache |-> DictDel(cs.cache, key),
                       timestamps |-> cs.timestamps]]
    ELSE [hit |-> FALSE, val |-> None, cs |-> cs]

\* Mutant of get: a hit refreshes the timestamp of the entry.
get_mut_refresh(cs, key, ttl_seconds, t) ==
    IF key \in DOMAIN cs.cache
    THEN IF t - cs.timestamps[key] < ttl_seconds
         THEN [hit |-> TRUE, val |-> cs.cache[key],
               cs |-> [cache |-> cs.cache,
                       timestamps |-> DictPut(cs.timestamps, key, t)]]
         ELSE [hit |-> FALSE, val |-> None,
               cs |-> [cache |-> DictDel(cs.cache, key),
                       timestamps |-> DictDel(cs.timestamps, key)]]
    ELSE [hit |-> FALSE, val |-> None, cs |-> cs]

\* DataCache.get at time t: the value returned (hit, val) and the cache afterwards.
get(cs, key, ttl_seconds, t) ==
    IF key \in DOMAIN cs.cache
    THEN IF t - cs.timestamps[key] < ttl_seconds
         THEN [hit |-> TRUE, val |-> cs.cache[key], cs |-> cs]
         ELSE [hit |-> FALSE, val |-> None,
               cs |-> [cache |-> DictDel(cs.cache, key),
                       timestamps |-> DictDel(cs.timestamps, key)]]
    ELSE [hit |-> FALSE, val |-> None, cs |-> cs]

\* Mutant of set: the timestamp of a key that is already stored is kept.
set_mut_keep_timestamp(cs, key, value, t) ==
    [cache |-> DictPut(cs.cache, key, value),
     timestamps |-> IF key \in DOMAIN cs.timestamps
                    THEN cs.timestamps
                    ELSE DictPut(cs.timestamps, key, t)]

\* DataCache.set at time t.
set(cs, key, value, t) ==
    [cache |-> DictPut(cs.cache, key, value),
     timestamps |-> DictPut(cs.timestamps, key, t)]

\* Mutant of invalidate: every key with the same insertion time goes too.
invalidate_mut_same_time(cs, key) ==
    IF key \in DOMAIN cs.cache
    THEN LET gone == {x \in DOMAIN cs.cache : cs.timestamps[x] = cs.timestamps[key]}
         IN [cache |-> [x \in (DOMAIN cs.cache) \ gone |-> cs.cache[x]],
             timestamps |-> [x \in (DOMAIN cs.timestamps) \ gone |-> cs.timestamps[x]]]
    ELSE cs

\* DataCache.invalidate.
invalidate(cs, key) ==
    IF key \in DOMAIN cs.cache
    THEN [cache |-> DictDel(cs.cache, key),
          timestamps |-> DictDel(cs.timestamps, key)]
    ELSE cs

\* Mutant of clear: the timestamps are left behind.
clear_mut_keep_timestamps(cs) == [cache |-> EmptyDict, timestamps |-> cs.timestamps]

\* DataCache.clear.
clear(cs) == [cache |-> EmptyDict, timestamps |-> EmptyDict]

\* ------------------------------------------- the cache on its own (SpecCache)

\* No set() recorded for a key.
NoSet == [valid |-> FALSE, val |-> None, time |-> 0, evicted |-> FALSE]

\* State of the parts of the model a specification does not use.
IdleThreads == <<>>
IdleStore ==
    /\ storeCourses = <<>>
    /\ storeCourseTags = <<>>
    /\ storeHistory = <<>>
    /\ storeRatings = {}
    /\ storeDown = {}
    /\ phase = <<>>

\* DataCache.__init__, clock at 0.
InitCache ==
    /\ cache = EmptyDict
    /\ timestamps = EmptyDict
    /\ now = 0
    /\ op = [name |-> "init"]
    /\ lastSet = [k \in Keys |-> NoSet]
    /\ thr = IdleThreads
    /\ IdleStore

\* A caller reads key k with ttl.
Get(k, ttl) ==
    LET r == get(CS, k, ttl, now) IN
    /\ cache' = r.cs.cache
    /\ timestamps' = r.cs.timestamps
    /\ op' = [name |-> "get", key |-> k, ttl |-> ttl, ret |-> r.val, time |-> now,
              stored |-> k \in DOMAIN cache]
    /\ lastSet' = IF lastSet[k].valid /\ now - lastSet[k].time >= ttl
                  THEN [lastSet EXCEPT ![k].evicted = TRUE]
                  ELSE lastSet
    /\ UNCHANGED <<now, thr, storeVars, phase>>

\* A caller stores v under k.
Set(k, v) ==
    LET cs == set(CS, k, v, now) IN
    /\ cache' = cs.cache
    /\ timestamps' = cs.timestamps
    /\ op' = [name |-> "set", key |-> k, value |-> v, time |-> now]
    /\ lastSet' = [lastSet EXCEPT ![k] =
                      [valid |-> TRUE, val |-> v, time |-> now, evicted |-> FALSE]]
    /\ UNCHANGED <<now, thr, storeVars, phase>>

\* A caller invalidates k.
Invalidate(k) ==
    LET cs == invalidate(CS, k) IN
    /\ cache' = cs.cache
    /\ timestamps' = cs.timestamps
    /\ op' = [name |-> "invalidate", key |-> k, time |-> now,
              stored |-> k \in DOMAIN cache]
    /\ lastSet' = [lastSet EXCEPT ![k] = NoSet]
    /\ UNCHANGED <<now, thr, storeVars, phase>>

\* clear_all_cache(): _cache.clear().
clear_all_cache ==
    LET cs == clear(CS) IN
    /\ cache' = cs.cache
    /\ timestamps' = cs.timestamps
    /\ op' = [name |-> "clear", time |-> now, stored |-> DOMAIN cache]
    /\ lastSet' = [k \in DOMAIN lastSet |-> NoSet]
    /\ UNCHANGED <<now, thr, storeVars, phase>>

\* The clock advances; nothing else happens (there is no background sweeper).
TickCache ==
    /\ now + TickUnit <= CacheMaxTime
    /\ now' = now + TickUnit
    /\ op' = [name |-> "tick", time |-> now']
    /\ UNCHANGED <<cache, timestamps, lastSet, thr, storeVars, phase>>

NextCache ==
    \/ \E k \in Keys, ttl \in TTLs : Get(k, ttl)
    \/ \E k \in Keys, v \in Values : Set(k, v)
    \/ \E k \in Keys : Invalidate(k)
    \/ clear_all_cache
    \/ TickCache

SpecCache == InitCache /\ [][NextCache]_vars

\* ------------------------------- concurrent requests on the cache (SpecConc)

\* Request threads (the endpoints are plain def handlers, which the server
\* runs on a thread pool; _cache is one object shared by all of them).
Threads == {"t1", "t2"}

\* The key the concurrent requests contend for, and the ttl they read it with.
ConcKeys == {"k1"}
ConcTTLs == {60}

\* A thread that is not inside a cache call.
Idle == [pc |-> "idle", key |-> None, value |-> None, ttl |-> 0, ret |-> None]

InitConc ==
    /\ cache = EmptyDict
    /\ timestamps = EmptyDict
    /\ now = 0
    /\ op = [name |-> "init"]
    /\ lastSet = <<>>
    /\ thr = [t \in Threads |-> Idle]
    /\ IdleStore

\* Thread t moves to position pc, the shared dicts becoming c and ts.
Goto(t, pc, c, ts) ==
    /\ thr' = [thr EXCEPT ![t].pc = pc]
    /\ cache' = c
    /\ timestamps' = ts
    /\ UNCHANGED <<now, op, lastSet, storeVars, phase>>

\* Thread t leaves its call with result ret.
Return(t, ret, c, ts) ==
    /\ thr' = [thr EXCEPT ![t] = [Idle EXCEPT !.ret = ret]]
    /\ cache' = c
    /\ timestamps' = ts
    /\ op' = [name |-> "returned", thread |-> t, call |-> thr[t].pc, ret |-> ret]
    /\ UNCHANGED <<now, lastSet, storeVars, phase>>

\* Thread t enters get(k, ttl), set(k, v) or invalidate(k).
CallGet(t, k, ttl) ==
    /\ thr[t].pc = "idle"
    /\ thr' = [thr EXCEPT ![t] = [Idle EXCEPT !.pc = "get_in", !.key = k, !.ttl = ttl]]
    /\ UNCHANGED <<cache, timestamps, now, op, lastSet, storeVars, phase>>

CallSet(t, k, v) ==
    /\ thr[t].pc = "idle"
    /\ thr' = [thr EXCEPT ![t] = [Idle EXCEPT !.pc = "set_cache", !.key = k, !.value = v]]
    /\ UNCHANGED <<cache, timestamps, now, op, lastSet, storeVars, phase>>

CallInvalidate(t, k) ==
    /\ thr[t].pc = "idle"
    /\ thr' = [thr EXCEPT ![t] = [Idle EXCEPT !.pc = "inv_in", !.key = k]]
    /\ UNCHANGED <<cache, timestamps, now, op, lastSet, storeVars, phase>>

\* get, line 19: if key in self.cache
GetCheck(t) ==
    /\ thr[t].pc = "get_in"
    /\ IF thr[t].key \in DOMAIN cache
       THEN Goto(t, "get_ts", cache, timestamps)
       ELSE Return(t, None, cache, timestamps)

\* get, line 21: time.time() - self.timestamps[key] < ttl_seconds
GetCompare(t) ==
    /\ thr[t].pc = "get_ts"
    /\ IF thr[t].key \notin DOMAIN timestamps
       THEN Goto(t, "failed", cache, timestamps)
       ELSE IF now - timestamps[thr[t].key] < thr[t].ttl
            THEN Goto(t, "get_ret", cache, timestamps)
            ELSE Goto(t, "get_del_cache", cache, timestamps)

\* get, line 22: return self.cache[key]
GetReturn(t) ==
    /\ thr[t].pc = "get_ret"
    /\ IF thr[t].key \notin DOMAIN cache
       THEN Goto(t, "failed", cache, timestamps)
       ELSE Return(t, cache[thr[t].key], cache, timestamps)

\* get, line 26: del self.cache[key]
GetDelCache(t) ==
    /\ thr[t].pc = "get_del_cache"
    /\ IF thr[t].key \notin DOMAIN cache
       THEN Goto(t, "failed", cache, timestamps)
       ELSE Goto(t, "get_del_ts", DictDel(cache, thr[t].key), timestamps)

\* get, lines 27-28: del self.timestamps[key]; return None
GetDelTimestamp(t) ==
    /\ thr[t].pc = "get_del_ts"
    /\ IF thr[t].key \notin DOMAIN timestamps
       THEN Goto(t, "failed", cache, timestamps)
       ELSE Return(t, None, cache, DictDel(timestamps, thr[t].key))

\* set, line 33: self.cache[key] = value
SetCache(t) ==
    /\ thr[t].pc = "set_cache"
    /\ Goto(t, "set_ts", DictPut(cache, thr[t].key, thr[t].value), timestamps)

\* set, line 34: self.timestamps[key] = time.time()
SetTimestamp(t) ==
    /\ thr[t].pc = "set_ts"
    /\ Return(t, None, cache, DictPut(timestamps, thr[t].key, now))

\* invalidate, line 39: if key in self.cache
InvCheck(t) ==
    /\ thr[t].pc = "inv_in"
    /\ IF thr[t].key \in DOMAIN cache
       THEN Goto(t, "inv_del_cache", cache, timestamps)
       ELSE Return(t, None, cache, timestamps)

\* invalidate, line 40: del self.cache[key]
InvDelCache(t) ==
    /\ thr[t].pc = "inv_del_cache"
    /\ IF thr[t].key \notin DOMAIN cache
       THEN Goto(t, "failed", cache, timestamps)
       ELSE Goto(t, "inv_del_ts", DictDel(cache, thr[t].key), timestamps)

\* invalidate, line 41: del self.timestamps[key]
InvDelTimestamp(t) ==
    /\ thr[t].pc = "inv_del_ts"
    /\ IF thr[t].key \notin DOMAIN timestamps
       THEN Goto(t, "failed", cache, timestamps)
       ELSE Return(t, None, cache, DictDel(timestamps, thr[t].key))

\* The clock advances while requests are in progress.
TickConc ==
    /\ now + TickUnit <= CacheMaxTime
    /\ now' = now + TickUnit
    /\ UNCHANGED <<cache, timestamps, op, lastSet, thr, storeVars, phase>>

NextConc ==
    \/ \E t \in Threads, k \in ConcKeys, ttl \in ConcTTLs : CallGet(t, k, ttl)
    \/ \E t \in Threads, k \in ConcKeys, v \in Values : CallSet(t, k, v)
    \/ \E t \in Threads, k \in ConcKeys : CallInvalidate(t, k)
    \/ \E t \in Threads : GetCheck(t)
    \/ \E t \in Threads : GetCompare(t)
    \/ \E t \in Threads : GetReturn(t)
    \/ \E t \in Threads : GetDelCache(t)
    \/ \E t \in Threads : GetDelTimestamp(t)
    \/ \E t \in Threads : SetCache(t)
    \/ \E t \in Threads : SetTimestamp(t)
    \/ \E t \in Threads : InvCheck(t)
    \/ \E t \in Threads : InvDelCache(t)
    \/ \E t \in Threads : InvDelTimestamp(t)
    \/ TickConc

SpecConc == InitConc /\ [][NextConc]_vars

\* ------------------------------------------------- the store and its tables

Users == {"u1", "u2", "u3"}
Items == {"c1", "c2", "c3"}
Tags == {"t1", "t2"}

\* A missing (null) number in a table column: pandas' NaN.
NaN == -1

\* An empty pandas Series / an empty mapping.
EmptySeries == [x \in {} |-> 0]

\* The only member of a singleton set.  The({e(x) : x \in {v}}) is e with x
\* bound to the value of v: a local variable assigned once.
The(S) == CHOOSE y \in S : TRUE

\* Sum of f over the finite set S (Series.sum()).
RECURSIVE SumFn(_, _)
SumFn(f, S) ==
    IF S = {} THEN 0
    ELSE LET x == CHOOSE y \in S : TRUE IN f[x] + SumFn(f, S \ {x})

\* Largest value of f over the non-empty finite set S (Series.max()).
MaxFn(f, S) == CHOOSE m \in {f[x] : x \in S} : \A x \in S : f[x] <= m

\* The set of elements of a sequence.
Range(s) == {s[i] : i \in DOMAIN s}

\* Cache keys: f'history_{user_id}' and the like are pairs <<prefix, user_id>>;
\* the keys of the global tables carry an empty user part.
CoursesKey == <<"courses", "">>
CourseTagsKey == <<"course_tags", "">>
AllRatingsKey == <<"all_ratings", "">>
HistoryKey(user_id) == <<"history_", user_id>>
RatingsKey(user_id) == <<"ratings_", user_id>>
TagProfileKey(user_id) == <<"tag_profile_", user_id>>
SimilarUsersKey(user_id) == <<"similar_users_", user_id>>

\* The derived rating of a ratings row: the mean of the four sub-ratings,
\* in thousandths ((l + m + g + j) / 4.0).
DerivedRating(r) == ((r.lecturer + r.material + r.grading + r.joy) * 1000) \div 4

\* ------------------------------------------------------------------ loaders

\* The tables of the external store.
Tables == {"courses", "course_tag", "history", "ratings"}

\* The exception .execute() raises when the query of a table fails, and the
\* KeyError of a column that a frame does not have.
StoreError == "StoreError"
KeyError == "KeyError"

\* How a call ends: it returns ret, or raises (raised # None); cs is the
\* cache it leaves.
Returns(ret, cs) == [raised |-> None, ret |-> ret, cs |-> cs]
Raises(exception, cs) == [raised |-> exception, ret |-> None, cs |-> cs]

\* Mutant of load_courses_data: a failed query is taken for an empty table.
load_courses_data_mut_swallow(cs) ==
    LET cached == get(cs, CoursesKey, 600, now) IN
    IF cached.hit THEN Returns(cached.val, cached.cs)
    ELSE LET courses_df == IF "courses" \in storeDown THEN <<>>
                           ELSE [i \in DOMAIN storeCourses |->
                                   [course_id |-> storeCourses[i].id,
                                    avg_rating |-> storeCourses[i].rating]]
         IN Returns(courses_df, set(cached.cs, CoursesKey, courses_df, now))

\* load_courses_data: the courses table, cached for 600 s.
load_courses_data(cs) ==
    LET cached == get(cs, CoursesKey, 600, now) IN
    IF cached.hit THEN Returns(cached.val, cached.cs)
    ELSE IF "courses" \in storeDown THEN Raises(StoreError, cached.cs)
    ELSE LET courses_df == [i \in DOMAIN storeCourses |->
                               [course_id |-> storeCourses[i].id,
                                avg_rating |-> storeCourses[i].rating]]
         IN Returns(courses_df, set(cached.cs, CoursesKey, courses_df, now))

\* load_course_tags: the (course_id, tag) rows whose tag is not null, cached for 600 s.
load_course_tags(cs) ==
    LET cached == get(cs, CourseTagsKey, 600, now) IN
    IF cached.hit THEN Returns(cached.val, cached.cs)
    ELSE IF "course_tag" \in storeDown THEN Raises(StoreError, cached.cs)
    ELSE LET course_tags_df == SelectSeq(storeCourseTags, LAMBDA row : row.tag # "")
         IN Returns(course_tags_df, set(cached.cs, CourseTagsKey, course_tags_df, now))

\* The history reloaded and stored again although a fresh entry is cached.
load_user_history_mut_always_reload(cs, user_id) ==
    IF "history" \in storeDown THEN Raises(StoreError, cs)
    ELSE LET history == storeHistory[user_id]
         IN Returns(history, set(cs, HistoryKey(user_id), history, now))

\* load_user_history: the ids of the courses the user has taken, cached for 60 s.
load_user_history(cs, user_id) ==
    LET cached == get(cs, HistoryKey(user_id), 60, now) IN
    IF cached.hit THEN Returns(cached.val, cached.cs)
    ELSE IF "history" \in storeDown THEN Raises(StoreError, cached.cs)
    ELSE LET history == storeHistory[user_id]
         IN Returns(history, set(cached.cs, HistoryKey(user_id), history, now))

\* load_user_ratings: the user's rating rows with the derived rating, cached for 60 s.
load_user_ratings(cs, user_id) ==
    LET cached == get(cs, RatingsKey(user_id), 60, now) IN
    IF cached.hit THEN Returns(cached.val, cached.cs)
    ELSE IF "ratings" \in storeDown THEN Raises(StoreError, cached.cs)
    ELSE LET ratings_df == {[user_id |-> r.user_id, course_id |-> r.course_id,
                             rating |-> DerivedRating(r)] :
                               r \in {x \in storeRatings : x.user_id = user_id}}
         IN Returns(ratings_df, set(cached.cs, RatingsKey(user_id), ratings_df, now))

\* The all-ratings entry read with the ttl of the catalog tables.
load_all_ratings_for_collaborative_mut_ttl_600(cs) ==
    LET cached == get(cs, AllRatingsKey, 600, now) IN
    IF cached.hit THEN Returns(cached.val, cached.cs)
    ELSE IF "ratings" \in storeDown THEN Raises(StoreError, cached.cs)
    ELSE LET ratings_df == {[user_id |-> r.user_id, course_id |-> r.course_id,
                             rating |-> DerivedRating(r)] : r \in storeRatings}
         IN Returns(ratings_df, set(cached.cs, AllRatingsKey, ratings_df, now))

\* load_all_ratings_for_collaborative: every rating row with the derived
\* rating, cached for 300 s.
load_all_ratings_for_collaborative(cs) ==
    LET cached == get(cs, AllRatingsKey, 300, now) IN
    IF cached.hit THEN Returns(cached.val, cached.cs)
    ELSE IF "ratings" \in storeDown THEN Raises(StoreError, cached.cs)
    ELSE LET ratings_df == {[user_id |-> r.user_id, course_id |-> r.course_id,
                             rating |-> DerivedRating(r)] : r \in storeRatings}
         IN Returns(ratings_df, set(cached.cs, AllRatingsKey, ratings_df, now))

\* ---------------------------------------------------- collaborative filtering

\* Default top_n of find_similar_users_cached.
SimilarTopN == 15

\* build_user_item_matrix: rows are the users with a rating, columns the
\* courses with a rating, a cell the user's rating of the course or 0.
build_user_item_matrix(ratings_df) ==
    LET index == {r.user_id : r \in ratings_df}
        columns == {r.course_id : r \in ratings_df}
    IN [index |-> index, columns |-> columns,
        values |-> [u \in index |-> [c \in columns |->
            IF \E r \in ratings_df : r.user_id = u /\ r.course_id = c
            THEN (CHOOSE r \in ratings_df : r.user_id = u /\ r.course_id = c).rating
            ELSE 0]]]

\* Integer square root of x < 1300 * 1300, digit by digit (hundreds, tens, units).
ISqrt(x) ==
    LET h == 100 * (CHOOSE a \in 0..12 : (100 * a) * (100 * a) <= x
                                          /\ (100 * a + 100) * (100 * a + 100) > x)
        t == h + 10 * (CHOOSE b \in 0..9 : (h + 10 * b) * (h + 10 * b) <= x
                                           /\ (h + 10 * b + 10) * (h + 10 * b + 10) > x)
    IN t + (CHOOSE c \in 0..9 : (t + c) * (t + c) <= x /\ (t + c + 1) * (t + c + 1) > x)

\* A matrix cell in quarter stars (a derived rating is a multiple of 0.25;
\* the cosine does not depend on the unit).
Quarter(v) == v \div 250

\* Dot product of two rows of the matrix.
Dot(m, u, v) ==
    SumFn([c \in m.columns |-> Quarter(m.values[u][c]) * Quarter(m.values[v][c])],
          m.columns)

\* cosine_similarity of rows u and v, in thousandths; 0 when a row is all zero.
Cosine(m, u, v) ==
    LET norms == Dot(m, u, u) * Dot(m, v, v)
    IN IF norms = 0 THEN 0 ELSE (Dot(m, u, v) * 1000) \div ISqrt(norms)

\* The noise floor lowered to 0.
AboveNoiseFloor_mut_no_floor(m, u, v) == Dot(m, u, v) > 0

\* The noise floor lowered to 0.01.
AboveNoiseFloor_mut_floor_hundredth(m, u, v) ==
    /\ Dot(m, u, v) > 0
    /\ 10000 * Dot(m, u, v) * Dot(m, u, v) > Dot(m, u, u) * Dot(m, v, v)

\* sim_series > 0.05, decided exactly: dot / sqrt(norms) > 1/20.
AboveNoiseFloor(m, u, v) ==
    /\ Dot(m, u, v) > 0
    /\ 400 * Dot(m, u, v) * Dot(m, u, v) > Dot(m, u, u) * Dot(m, v, v)

\* The n members of S with the largest f (sort_values(ascending=False).head(n)).
RECURSIVE Largest(_, _, _)
Largest(f, S, n) ==
    IF n <= 0 \/ S = {} THEN {}
    ELSE LET x == CHOOSE y \in S : \A z \in S : f[z] <= f[y]
         IN {x} \cup Largest(f, S \ {x}, n - 1)

\* Lines 222-234 of find_similar_users_cached: from the user-item matrix m,
\* the other users' similarities, the top_n largest, those above the noise
\* floor.
similar_users_of(m, user_id, top_n) ==
    LET others == m.index \ {user_id}
        sims == [v \in others |-> Cosine(m, user_id, v)]
        top == Largest(sims, others, top_n)
        kept == {v \in top : AboveNoiseFloor(m, user_id, v)}
    IN [v \in kept |-> Cosine(m, user_id, v)]

\* find_similar_users_cached: the similar users, cached for 300 s once
\* computed (the early return of lines 219-220 caches nothing).
find_similar_users_cached(cs, user_id, top_n) ==
    The({IF cached.hit THEN Returns(cached.val, cached.cs)
         ELSE The({
              IF all_ratings.raised # None THEN all_ratings
              ELSE The({
                 IF m.index = {} \/ user_id \notin m.index
                 THEN Returns(EmptySeries, all_ratings.cs)
                 ELSE The({Returns(sim_series,
                                   set(all_ratings.cs, SimilarUsersKey(user_id),
                                       sim_series, now)) :
                           sim_series \in {similar_users_of(m, user_id, top_n)}}) :
                 m \in {build_user_item_matrix(all_ratings.ret)}}) :
              all_ratings \in {load_all_ratings_for_collaborative(cached.cs)}}) :
         cached \in {get(cs, SimilarUsersKey(user_id), 300, now)}})

\* The plain mean of the similar users' ratings instead of the weighted one.
predictions_of_mut_unweighted(similar_users, all_ratings, candidate_courses) ==
    LET rows == {r \in all_ratings :
                    /\ r.user_id \in DOMAIN similar_users
                    /\ r.course_id \in candidate_courses}
        rated == {r.course_id : r \in rows}
        of(c) == {r \in rows : r.course_id = c}
    IN [c \in rated |->
           SumFn([r \in of(c) |-> r.rating], of(c)) \div Cardinality(of(c))]

\* Lines 258-279 of predict_ratings_collaborative: per candidate course rated
\* by a similar user, the similarity-weighted mean of those users' ratings.
predictions_of(similar_users, all_ratings, candidate_courses) ==
    LET rows == {r \in all_ratings :
                    /\ r.user_id \in DOMAIN similar_users
                    /\ r.course_id \in candidate_courses}
        rated == {r.course_id : r \in rows}
        of(c) == {r \in rows : r.course_id = c}
    IN [c \in rated |->
           SumFn([r \in of(c) |-> r.rating * similar_users[r.user_id]], of(c))
           \div SumFn([r \in of(c) |-> similar_users[r.user_id]], of(c))]

\* A score for every candidate course, 0 where no similar user rated it.
predict_ratings_collaborative_mut_zero_fill(cs, user_id, candidate_courses) ==
    The({IF similar_users.raised # None THEN similar_users
         ELSE The({IF all_ratings.raised # None THEN all_ratings
                   ELSE The({Returns([c \in candidate_courses |->
                                         IF c \in DOMAIN predictions
                                         THEN predictions[c] ELSE 0],
                                     all_ratings.cs) :
                             predictions \in {predictions_of(similar_users.ret,
                                                  all_ratings.ret, candidate_courses)}}) :
                   all_ratings \in {load_all_ratings_for_collaborative(similar_users.cs)}}) :
         similar_users \in {find_similar_users_cached(cs, user_id, SimilarTopN)}})

\* predict_ratings_collaborative.
predict_ratings_collaborative(cs, user_id, candidate_courses) ==
    The({IF similar_users.raised # None THEN similar_users
         ELSE IF DOMAIN similar_users.ret = {}
         THEN Returns(EmptySeries, similar_users.cs)
         ELSE The({IF all_ratings.raised # None THEN all_ratings
                   ELSE Returns(predictions_of(similar_users.ret, all_ratings.ret,
                                               candidate_courses),
                                all_ratings.cs) :
                   all_ratings \in {load_all_ratings_for_collaborative(similar_users.cs)}}) :
         similar_users \in {find_similar_users_cached(cs, user_id, SimilarTopN)}})

\* ---------------------------------------------------- content-based filtering

\* The tag preferences computed from a user's rating rows and the course
\* tags (build_user_tag_profile, lines 299-331): the ratings >= 2.5, or all
\* of them when none is, joined with the tags on course_id and grouped by
\* tag; preference = mean rating * (1 + 0.1 * count).  computed is FALSE on
\* the early returns.
tag_profile_of(user_ratings, course_tags) ==
    LET liked == {r \in user_ratings : r.rating >= 2500}
        high_ratings == IF liked = {} THEN user_ratings ELSE liked
        user_course_tags == {<<r, i>> \in high_ratings \X DOMAIN course_tags :
                                course_tags[i].course_id = r.course_id}
        tags == {course_tags[p[2]].tag : p \in user_course_tags}
        of(t) == {p \in user_course_tags : course_tags[p[2]].tag = t}
        mean(t) == SumFn([p \in of(t) |-> p[1].rating], of(t)) \div Cardinality(of(t))
    IN IF user_ratings = {} \/ course_tags = <<>> \/ user_course_tags = {}
       THEN [computed |-> FALSE, profile |-> EmptySeries]
       ELSE [computed |-> TRUE,
             profile |-> [t \in tags |-> (mean(t) * (10 + Cardinality(of(t)))) \div 10]]

\* build_user_tag_profile: the profile, cached for 300 s once computed (the
\* early returns cache nothing).
build_user_tag_profile(cs, user_id) ==
    The({IF cached.hit THEN Returns(cached.val, cached.cs)
         ELSE The({
           IF user_ratings.raised # None THEN user_ratings
           ELSE The({
              IF course_tags.raised # None THEN course_tags
              ELSE The({
                 IF result.computed
                 THEN Returns(result.profile,
                              set(course_tags.cs, TagProfileKey(user_id),
                                  result.profile, now))
                 ELSE Returns(EmptySeries, course_tags.cs) :
                 result \in {tag_profile_of(user_ratings.ret, course_tags.ret)}}) :
              course_tags \in {load_course_tags(user_ratings.cs)}}) :
           user_ratings \in {load_user_ratings(cached.cs, user_id)}}) :
         cached \in {get(cs, TagProfileKey(user_id), 300, now)}})

\* The content scores left as they are before the normalization.
content_scores_of_mut_no_rescale(course_tags, candidate_courses, user_tag_profile, desired_tags) ==
    LET ids == Range(candidate_courses)
        zeros == [c \in ids |-> 0]
        candidate_tags == SelectSeq(course_tags, LAMBDA row : row.course_id \in ids)
        rowsOf(c) == {i \in DOMAIN candidate_tags : candidate_tags[i].course_id = c}
        profile_scores == [c \in ids |->
            SumFn([i \in rowsOf(c) |->
                      IF candidate_tags[i].tag \in DOMAIN user_tag_profile
                      THEN user_tag_profile[candidate_tags[i].tag] ELSE 0], rowsOf(c))]
        desired_bonus == [c \in ids |->
            IF desired_tags # {}
            THEN 2000 * Cardinality({i \in rowsOf(c) : candidate_tags[i].tag \in desired_tags})
            ELSE 0]
        summed == [c \in ids |-> profile_scores[c] + desired_bonus[c]]
        tagged == {c \in ids : rowsOf(c) # {}}
        base == IF SumFn(summed, ids) = 0
                THEN [c \in tagged |-> 500 * Cardinality(rowsOf(c))]
                ELSE summed
        scaled == base
    IN IF course_tags = <<>> \/ candidate_tags = <<>>
       THEN zeros
       ELSE [c \in ids |-> IF c \in DOMAIN scaled THEN scaled[c] ELSE 0]

\* The content scores of the candidates from the course tags (lines 344-403).
content_scores_of(course_tags, candidate_courses, user_tag_profile, desired_tags) ==
    LET ids == Range(candidate_courses)
        zeros == [c \in ids |-> 0]
        candidate_tags == SelectSeq(course_tags, LAMBDA row : row.course_id \in ids)
        rowsOf(c) == {i \in DOMAIN candidate_tags : candidate_tags[i].course_id = c}
        profile_scores == [c \in ids |->
            SumFn([i \in rowsOf(c) |->
                      IF candidate_tags[i].tag \in DOMAIN user_tag_profile
                      THEN user_tag_profile[candidate_tags[i].tag] ELSE 0], rowsOf(c))]
        desired_bonus == [c \in ids |->
            IF desired_tags # {}
            THEN 2000 * Cardinality({i \in rowsOf(c) : candidate_tags[i].tag \in desired_tags})
            ELSE 0]
        summed == [c \in ids |-> profile_scores[c] + desired_bonus[c]]
        tagged == {c \in ids : rowsOf(c) # {}}
        base == IF SumFn(summed, ids) = 0
                THEN [c \in tagged |-> 500 * Cardinality(rowsOf(c))]
                ELSE summed
        max_score == MaxFn(base, DOMAIN base)
        scaled == IF SumFn(base, DOMAIN base) > 0 /\ max_score > 5000
                  THEN [c \in DOMAIN base |-> (base[c] * 5000) \div max_score]
                  ELSE base
    IN IF course_tags = <<>> \/ candidate_tags = <<>>
       THEN zeros
       ELSE [c \in ids |-> IF c \in DOMAIN scaled THEN scaled[c] ELSE 0]

\* calculate_content_scores.
calculate_content_scores(cs, candidate_courses, user_tag_profile, desired_tags) ==
    The({IF course_tags.raised # None THEN course_tags
         ELSE Returns(content_scores_of(course_tags.ret, candidate_courses,
                                        user_tag_profile, desired_tags),
                      course_tags.cs) :
         course_tags \in {load_course_tags(cs)}})

\* ------------------------------------------------- recommendation generation

\* A stable insertion of tag t into the sequence s sorted by preference.
RECURSIVE InsertByPreference(_, _, _)
InsertByPreference(s, t, pref) ==
    IF s = <<>> THEN <<t>>
    ELSE IF pref[Head(s)] >= pref[t]
         THEN <<Head(s)>> \o InsertByPreference(Tail(s), t, pref)
         ELSE <<t>> \o s

\* sorted(matching, key=lambda t: user_tag_profile[t], reverse=True)
RECURSIVE SortedByPreference(_, _)
SortedByPreference(tags, pref) ==
    IF tags = <<>> THEN <<>>
    ELSE InsertByPreference(SortedByPreference(SubSeq(tags, 1, Len(tags) - 1), pref),
                            tags[Len(tags)], pref)

\* The first n elements of a sequence (s[:n], DataFrame.head(n) for n >= 0).
FirstN(s, n) == SubSeq(s, 1, IF n < Len(s) THEN n ELSE Len(s))

\* A reason string: its wording (kind) and what it is formatted with.
Reason(kind, stars, tags, goals) ==
    [kind |-> kind, stars |-> stars, tags |-> tags, goals |-> goals]

\* generate_reasons, lines 414-443: the reasons found before the fallback.
specific_reasons(row, user_tag_profile, desired_tags) ==
    LET peer == IF row.collab_score >= 4500
                THEN <<Reason("Students like you rated this", row.collab_score, <<>>, {})>>
                ELSE IF row.collab_score >= 4000
                     THEN <<Reason("Highly rated by similar students",
                                   row.collab_score, <<>>, {})>>
                     ELSE <<>>
        matching == SelectSeq(row.tags, LAMBDA t : t \in DOMAIN user_tag_profile)
        interests == IF DOMAIN user_tag_profile # {} /\ row.tags # <<>> /\ matching # <<>>
                     THEN <<Reason("Matches interests", 0,
                                   FirstN(SortedByPreference(matching, user_tag_profile), 3),
                                   {})>>
                     ELSE <<>>
        matching_desired == Range(row.tags) \cap desired_tags
        goals == IF desired_tags # {} /\ row.tags # <<>> /\ matching_desired # {}
                 THEN <<Reason("Prepares for", 0, <<>>, matching_desired)>>
                 ELSE <<>>
        popular == IF row.avg_rating >= 4500
                   THEN <<Reason("Popular course", row.avg_rating, <<>>, {})>>
                   ELSE <<>>
        specific == peer \o interests \o goals \o popular
    IN IF row.content_score > 0 /\ specific = <<>>
       THEN <<Reason("Relevant to your interests", 0, <<>>, {})>>
       ELSE specific

\* The generic popularity reason of line 446.
FallbackReason == Reason("Recommended based on course popularity", 0, <<>>, {})

\* Mutant of generate_reasons: the popularity fallback is forgotten.
generate_reasons_mut_no_fallback(row, user_tag_profile, desired_tags) ==
    specific_reasons(row, user_tag_profile, desired_tags)

\* generate_reasons.
generate_reasons(row, user_tag_profile, desired_tags) ==
    LET reasons == specific_reasons(row, user_tag_profile, desired_tags)
    IN IF reasons # <<>> THEN reasons ELSE <<FallbackReason>>

\* Default weights of get_recommendations, in tenths.
CollabWeight == 6
ContentWeight == 4

\* Mutant of exclude_taken: the history is not excluded.
exclude_taken_mut_keep_all(courses_df, taken_courses) == courses_df

\* candidates = courses_df[~courses_df['course_id'].isin(taken_courses)]
exclude_taken(courses_df, taken_courses) ==
    SelectSeq(courses_df, LAMBDA row : row.course_id \notin taken_courses)

\* Lines 478-487: with desired tags and a non-empty tag table, the candidates
\* carrying at least one desired tag.
filter_desired(candidates, course_tags, desired_tags) ==
    IF desired_tags # {} /\ course_tags # <<>>
    THEN SelectSeq(candidates, LAMBDA row :
            \E i \in DOMAIN course_tags :
                /\ course_tags[i].course_id = row.course_id
                /\ course_tags[i].tag \in desired_tags)
    ELSE candidates

\* The fallback final score without the average rating.
score_rows_mut_no_popularity(candidates, collab_predictions, content_scores, course_tags, user_tag_profile, desired_tags, collab_weight, content_weight) ==
    [i \in DOMAIN candidates |->
        LET id == candidates[i].course_id
            avg_rating == IF candidates[i].avg_rating = NaN THEN 0
                          ELSE candidates[i].avg_rating
            collab_score == IF id \in DOMAIN collab_predictions
                            THEN collab_predictions[id] ELSE 0
            content_score == content_scores[id]
            has_collab == collab_score > 0
            tagrows == SelectSeq(course_tags, LAMBDA r : r.course_id = id)
            row == [course_id |-> id,
                    avg_rating |-> avg_rating,
                    collab_score |-> collab_score,
                    content_score |-> content_score,
                    final_score |-> IF has_collab
                                    THEN collab_weight * collab_score
                                         + content_weight * content_score
                                    ELSE 6 * content_score,
                    confidence |-> IF has_collab THEN "high" ELSE "medium",
                    tags |-> [j \in DOMAIN tagrows |-> tagrows[j].tag]]
        IN [course_id |-> row.course_id,
            avg_rating |-> row.avg_rating,
            collab_score |-> row.collab_score,
            content_score |-> row.content_score,
            final_score |-> row.final_score,
            confidence |-> row.confidence,
            tags |-> row.tags,
            reasons |-> generate_reasons(row, user_tag_profile, desired_tags)]]

\* The fallback final score as the plain sum of content score and average rating.
score_rows_mut_unweighted_fallback(candidates, collab_predictions, content_scores, course_tags, user_tag_profile, desired_tags, collab_weight, content_weight) ==
    [i \in DOMAIN candidates |->
        LET id == candidates[i].course_id
            avg_rating == IF candidates[i].avg_rating = NaN THEN 0
                          ELSE candidates[i].avg_rating
            collab_score == IF id \in DOMAIN collab_predictions
                            THEN collab_predictions[id] ELSE 0
            content_score == content_scores[id]
            has_collab == collab_score > 0
            tagrows == SelectSeq(course_tags, LAMBDA r : r.course_id = id)
            row == [course_id |-> id,
                    avg_rating |-> avg_rating,
                    collab_score |-> collab_score,
                    content_score |-> content_score,
                    final_score |-> IF has_collab
                                    THEN collab_weight * collab_score
                                         + content_weight * content_score
                                    ELSE 10 * content_score + 10 * avg_rating,
                    confidence |-> IF has_collab THEN "high" ELSE "medium",
                    tags |-> [j \in DOMAIN tagrows |-> tagrows[j].tag]]
        IN [course_id |-> row.course_id,
            avg_rating |-> row.avg_rating,
            collab_score |-> row.collab_score,
            content_score |-> row.content_score,
            final_score |-> row.final_score,
            confidence |-> row.confidence,
            tags |-> row.tags,
            reasons |-> generate_reasons(row, user_tag_profile, desired_tags)]]

\* Lines 512-559: one scored, annotated row per candidate.  NaN is filled
\* with 0; final_score is in ten-thousandths (weights are tenths), which
\* keeps the weighted sum exact.
score_rows(candidates, collab_predictions, content_scores, course_tags, user_tag_profile, desired_tags, collab_weight, content_weight) ==
    [i \in DOMAIN candidates |->
        LET id == candidates[i].course_id
            avg_rating == IF candidates[i].avg_rating = NaN THEN 0
                          ELSE candidates[i].avg_rating
            collab_score == IF id \in DOMAIN collab_predictions
                            THEN collab_predictions[id] ELSE 0
            content_score == content_scores[id]
            has_collab == collab_score > 0
            tagrows == SelectSeq(course_tags, LAMBDA r : r.course_id = id)
            row == [course_id |-> id,
                    avg_rating |-> avg_rating,
                    collab_score |-> collab_score,
                    content_score |-> content_score,
                    final_score |-> IF has_collab
                                    THEN collab_weight * collab_score
                                         + content_weight * content_score
                                    ELSE 6 * content_score + 4 * avg_rating,
                    confidence |-> IF has_collab THEN "high" ELSE "medium",
                    tags |-> [j \in DOMAIN tagrows |-> tagrows[j].tag]]
        IN [course_id |-> row.course_id,
            avg_rating |-> row.avg_rating,
            collab_score |-> row.collab_score,
            content_score |-> row.content_score,
            final_score |-> row.final_score,
            confidence |-> row.confidence,
            tags |-> row.tags,
            reasons |-> generate_reasons(row, user_tag_profile, desired_tags)]]

\* The permutations of 1..n.
Perms(n) == {p \in [1..n -> 1..n] : \A i, j \in 1..n : p[i] = p[j] => i = j}

\* Mutant of sort_values: ascending order.
sort_values_mut_ascending(rows) ==
    {[i \in DOMAIN rows |-> rows[p[i]]] : p \in
        {q \in Perms(Len(rows)) :
            \A i \in 1..(Len(rows) - 1) :
                rows[q[i]].final_score <= rows[q[i + 1]].final_score}}

\* candidates.sort_values('final_score', ascending=False): the default sort
\* kind is not a stable one, so rows with equal scores may come out in any
\* order; every descending arrangement is a possible result.
sort_values(rows) ==
    {[i \in DOMAIN rows |-> rows[p[i]]] : p \in
        {q \in Perms(Len(rows)) :
            \A i \in 1..(Len(rows) - 1) :
                rows[q[i]].final_score >= rows[q[i + 1]].final_score}}

\* DataFrame.head(n): the first n rows, or all but the last -n when n < 0.
head(rows, n) ==
    IF n >= 0 THEN FirstN(rows, n)
    ELSE SubSeq(rows, 1, IF Len(rows) + n > 0 THEN Len(rows) + n ELSE 0)

\* What lines 494-563 leave when they stop with an exception (or, with
\* exception None, when they are not run): nothing scored, an empty frame.
Unranked(exception, cs) ==
    [raised |-> exception, candidates |-> <<>>, collab_predictions |-> EmptySeries,
     profile |-> EmptySeries, content_scores |-> EmptySeries, scored |-> <<>>,
     results |-> {<<>>}, cs |-> cs]

\* Lines 494-563 of get_recommendations: the candidates scored, annotated,
\* sorted and cut to top_n.  results: the frames the call can return.
rank_candidates(cs, user_id, candidates, desired_tags, top_n, collab_weight, content_weight) ==
    The({The({
      IF collab_predictions.raised # None
      THEN Unranked(collab_predictions.raised, collab_predictions.cs)
      ELSE The({
        IF user_tag_profile.raised # None
        THEN Unranked(user_tag_profile.raised, user_tag_profile.cs)
        ELSE The({
          IF content_scores.raised # None
          THEN Unranked(content_scores.raised, content_scores.cs)
          ELSE The({
            IF course_tags.raised # None
            THEN Unranked(course_tags.raised, course_tags.cs)
            ELSE The({
              [raised |-> None,
               candidates |-> candidate_courses,
               collab_predictions |-> collab_predictions.ret,
               profile |-> user_tag_profile.ret,
               content_scores |-> content_scores.ret,
               scored |-> scored,
               results |-> {head(sorted, top_n) : sorted \in sort_values(scored)},
               cs |-> course_tags.cs] :
              scored \in {score_rows(candidates, collab_predictions.ret,
                                     content_scores.ret, course_tags.ret,
                                     user_tag_profile.ret, desired_tags,
                                     collab_weight, content_weight)}}) :
            course_tags \in {load_course_tags(content_scores.cs)}}) :
          content_scores \in {calculate_content_scores(user_tag_profile.cs,
                                  candidate_courses, user_tag_profile.ret, desired_tags)}}) :
        user_tag_profile \in {build_user_tag_profile(collab_predictions.cs, user_id)}}) :
      collab_predictions \in {predict_ratings_collaborative(cs, user_id,
                                                            Range(candidate_courses))}}) :
      candidate_courses \in {[i \in DOMAIN candidates |-> candidates[i].course_id]}})

\* The outcome of get_recommendations.  raised: None, or the exception the
\* call ends with.  taken: the history loaded.  history_cached: it came from
\* the cache.  An empty frame is <<>>.
Outcome(taken, history_cached, ranked) ==
    [raised |-> ranked.raised, taken |-> taken, history_cached |-> history_cached,
     candidates |-> ranked.candidates,
     collab_predictions |-> ranked.collab_predictions,
     profile |-> ranked.profile, content_scores |-> ranked.content_scores,
     scored |-> ranked.scored, results |-> ranked.results, cs |-> ranked.cs]

\* get_recommendations.  Line 474 raises KeyError on a courses frame that
\* has no rows (pd.DataFrame([]) has no course_id column).
get_recommendations(cs, user_id, desired_tags, top_n, collab_weight, content_weight) ==
    The({
      IF courses_df.raised # None
      THEN Outcome({}, FALSE, Unranked(courses_df.raised, courses_df.cs))
      ELSE The({The({
        IF taken_courses.raised # None
        THEN Outcome({}, history_cached, Unranked(taken_courses.raised, taken_courses.cs))
        ELSE IF courses_df.ret = <<>>
        THEN Outcome(taken_courses.ret, history_cached,
                     Unranked(KeyError, taken_courses.cs))
        ELSE The({
          IF desired_tags # {} /\ course_tags.raised # None
          THEN Outcome(taken_courses.ret, history_cached,
                       Unranked(course_tags.raised, course_tags.cs))
          ELSE The({The({
            IF candidates = <<>>
            THEN Outcome(taken_courses.ret, history_cached, Unranked(None, cs1))
            ELSE Outcome(taken_courses.ret, history_cached,
                         rank_candidates(cs1, user_id, candidates, desired_tags, top_n,
                                         collab_weight, content_weight)) :
            candidates \in {IF desired_tags # {}
                            THEN filter_desired(exclude_taken(courses_df.ret,
                                                              taken_courses.ret),
                                                course_tags.ret, desired_tags)
                            ELSE exclude_taken(courses_df.ret, taken_courses.ret)}}) :
            cs1 \in {IF desired_tags # {} THEN course_tags.cs ELSE taken_courses.cs}}) :
          course_tags \in {load_course_tags(taken_courses.cs)}}) :
        taken_courses \in {load_user_history(courses_df.cs, user_id)}}) :
        history_cached \in {get(courses_df.cs, HistoryKey(user_id), 60, now).hit}}) :
      courses_df \in {load_courses_data(cs)}})

\* ----------------------------------------------------------- cache management

\* Mutant of invalidate_user_cache: the ratings entry is forgotten.
invalidate_user_cache_mut_keep_ratings(cs, user_id) ==
    invalidate(invalidate(invalidate(invalidate(cs,
        HistoryKey(user_id)), TagProfileKey(user_id)),
        SimilarUsersKey(user_id)), AllRatingsKey)

\* Mutant of invalidate_user_cache: the tag profile entry is forgotten.
invalidate_user_cache_mut_keep_profile(cs, user_id) ==
    invalidate(invalidate(invalidate(invalidate(cs,
        RatingsKey(user_id)), HistoryKey(user_id)),
        SimilarUsersKey(user_id)), AllRatingsKey)

\* invalidate_user_cache.
invalidate_user_cache(cs, user_id) ==
    invalidate(invalidate(invalidate(invalidate(invalidate(cs,
        RatingsKey(user_id)), HistoryKey(user_id)), TagProfileKey(user_id)),
        SimilarUsersKey(user_id)), AllRatingsKey)

\* ------------------------------------------- the engine in operation (SpecRec)

\* Last clock value of the request specification and of the profile specification.
RecMaxTime == 120
MaxTime == 360

\* The store the engine starts from.
Catalog ==
    <<[id |-> "c1", rating |-> 4600],
      [id |-> "c3", rating |-> NaN],
      [id |-> "c2", rating |-> 3000]>>
TagTable ==
    <<[course_id |-> "c1", tag |-> "t1"],
      [course_id |-> "c2", tag |-> "t1"],
      [course_id |-> "c2", tag |-> "t2"]>>
Stars(user_id, course_id, l, m, g, j) ==
    [user_id |-> user_id, course_id |-> course_id,
     lecturer |-> l, material |-> m, grading |-> g, joy |-> j]
InitRatings ==
    {Stars("u1", "c1", 4, 4, 4, 4),
     Stars("u2", "c1", 5, 5, 5, 5), Stars("u2", "c2", 3, 4, 3, 4),
     Stars("u3", "c1", 4, 4, 4, 4), Stars("u3", "c3", 5, 4, 5, 4)}
InitHistory == [u \in Users |->
    IF u = "u1" THEN {"c1"} ELSE IF u = "u2" THEN {"c1", "c2"} ELSE {"c1", "c3"}]

\* The requests made and the changes applied to the store.
ReqUsers == {"u1", "u2"}
DesiredChoices == {{}, {"t2"}}
TopNs == {1, 2}
ChangedUsers == {"u1"}
NewStars == {<<1, 2, 2, 1>>, <<5, 5, 5, 5>>}
RatedItems == {"c1", "c2"}

\* Progress of the scenario invalidate_user(U) -> change of U's ratings -> re-fetch.
NoPhase == [stage |-> "idle", old_cached |-> FALSE, old |-> EmptySeries]

InitRec ==
    /\ cache = EmptyDict
    /\ timestamps = EmptyDict
    /\ now = 0
    /\ op = [name |-> "init"]
    /\ lastSet = <<>>
    /\ thr = IdleThreads
    /\ storeCourses = Catalog
    /\ storeCourseTags = TagTable
    /\ storeHistory = InitHistory
    /\ storeRatings = InitRatings
    /\ storeDown = {}
    /\ phase = [u \in Users |-> NoPhase]

\* The keys a call has (re)written: stored now and not stored so before.
Written(before, after) ==
    {k \in DOMAIN after.cache :
        \/ k \notin DOMAIN before.cache
        \/ before.timestamps[k] # after.timestamps[k]
        \/ before.cache[k] # after.cache[k]}

\* A request for recommendations (the endpoint passes the default weights).
GetRecommendations(user_id, desired_tags, top_n) ==
    \E r \in {get_recommendations(CS, user_id, desired_tags, top_n,
                                   CollabWeight, ContentWeight)} :
    \E results \in r.results :
        /\ cache' = r.cs.cache
        /\ timestamps' = r.cs.timestamps
        /\ op' = [name |-> "get_recommendations", user_id |-> user_id,
                  desired_tags |-> desired_tags, top_n |-> top_n,
                  raised |-> r.raised, taken |-> r.taken,
                  history_cached |-> r.history_cached,
                  candidates |-> r.candidates,
                  collab_predictions |-> r.collab_predictions,
                  profile |-> r.profile, content_scores |-> r.content_scores,
                  scored |-> r.scored, results |-> results,
                  written |-> Written(CS, r.cs), phase |-> phase[user_id]]
        /\ phase' = [phase EXCEPT ![user_id] = NoPhase]
        /\ UNCHANGED <<now, lastSet, thr, storeVars>>

\* A direct fetch of a user's tag profile.
BuildUserTagProfile(user_id) ==
    \E r \in {build_user_tag_profile(CS, user_id)} :
    /\ cache' = r.cs.cache
    /\ timestamps' = r.cs.timestamps
    /\ op' = [name |-> "build_user_tag_profile", user_id |-> user_id,
              raised |-> r.raised, profile |-> r.ret, written |-> Written(CS, r.cs),
              phase |-> phase[user_id]]
    /\ phase' = [phase EXCEPT ![user_id] = NoPhase]
    /\ UNCHANGED <<now, lastSet, thr, storeVars>>

\* The caller invalidates a user's entries.
InvalidateUser(user_id) ==
    LET cs == invalidate_user_cache(CS, user_id)
        profile == get(CS, TagProfileKey(user_id), 300, now) IN
    /\ cache' = cs.cache
    /\ timestamps' = cs.timestamps
    /\ op' = [name |-> "invalidate_user_cache", user_id |-> user_id,
              stored |-> DOMAIN cache]
    /\ phase' = [phase EXCEPT ![user_id] =
                    [stage |-> "invalidated", old_cached |-> profile.hit,
                     old |-> IF profile.hit THEN profile.val ELSE EmptySeries]]
    /\ UNCHANGED <<now, lastSet, thr, storeVars>>

\* Outside the engine, a user's rating of a course is written to the store.
StoreRate(user_id, course_id, stars) ==
    LET row == Stars(user_id, course_id, stars[1], stars[2], stars[3], stars[4])
        others == {r \in storeRatings : ~(r.user_id = user_id /\ r.course_id = course_id)}
    IN
    /\ row \notin storeRatings
    /\ storeRatings' = others \cup {row}
    /\ op' = [name |-> "store_rate", user_id |-> user_id]
    /\ phase' = [phase EXCEPT ![user_id].stage =
                    IF @ = "invalidated" THEN "changed" ELSE @]
    /\ UNCHANGED <<cache, timestamps, now, lastSet, thr,
                   storeCourses, storeCourseTags, storeHistory, storeDown>>

\* Outside the engine, a course is added to a user's history in the store.
StoreAddHistory(user_id, course_id) ==
    /\ course_id \notin storeHistory[user_id]
    /\ storeHistory' = [storeHistory EXCEPT ![user_id] = @ \cup {course_id}]
    /\ op' = [name |-> "store_add_history", user_id |-> user_id]
    /\ UNCHANGED <<cache, timestamps, now, lastSet, thr, phase,
                   storeCourses, storeCourseTags, storeRatings, storeDown>>

\* The clock advances, up to the last value max.
Tick(max) ==
    /\ now + TickUnit <= max
    /\ now' = now + TickUnit
    /\ op' = [name |-> "tick", time |-> now']
    /\ UNCHANGED <<cache, timestamps, lastSet, thr, storeVars, phase>>

\* Requests for recommendations while histories change and users are invalidated.
NextRec ==
    \/ \E u \in ReqUsers, d \in DesiredChoices, n \in TopNs : GetRecommendations(u, d, n)
    \/ \E u \in ReqUsers : InvalidateUser(u)
    \/ \E u \in ChangedUsers, c \in Items : StoreAddHistory(u, c)
    \/ Tick(RecMaxTime)

SpecRec == InitRec /\ [][NextRec]_vars

\* Tag profiles fetched while ratings change and users are invalidated.
NextProfile ==
    \/ \E u \in ReqUsers : BuildUserTagProfile(u)
    \/ \E u \in ReqUsers : InvalidateUser(u)
    \/ \E u \in ChangedUsers, c \in RatedItems, q \in NewStars : StoreRate(u, c, q)
    \/ Tick(MaxTime)

SpecProfile == InitRec /\ [][NextProfile]_vars

\* ------------------------------------------ an unreliable store (SpecFail)

\* Last clock value of the specification with store failures.
FailMaxTime == 60

\* The loader calls made: the loader, its cache key and ttl, the table it queries.
LoaderCall(loader, key, ttl, table) ==
    [loader |-> loader, key |-> key, ttl |-> ttl, table |-> table]
LoaderCalls ==
    {LoaderCall("load_courses_data", CoursesKey, 600, "courses"),
     LoaderCall("load_course_tags", CourseTagsKey, 600, "course_tag"),
     LoaderCall("load_all_ratings_for_collaborative", AllRatingsKey, 300, "ratings")}
    \cup {LoaderCall("load_user_history", HistoryKey(u), 60, "history") : u \in ChangedUsers}
    \cup {LoaderCall("load_user_ratings", RatingsKey(u), 60, "ratings") : u \in ChangedUsers}

\* The loader of a call, applied to the cache cs.
CallLoader(c, cs) ==
    CASE c.loader = "load_courses_data" -> load_courses_data(cs)
      [] c.loader = "load_course_tags" -> load_course_tags(cs)
      [] c.loader = "load_all_ratings_for_collaborative" ->
            load_all_ratings_for_collaborative(cs)
      [] c.loader = "load_user_history" -> load_user_history(cs, c.key[2])
      [] c.loader = "load_user_ratings" -> load_user_ratings(cs, c.key[2])

\* A loader is called.
Load(c) ==
    \E r \in {CallLoader(c, CS)} :
    /\ cache' = r.cs.cache
    /\ timestamps' = r.cs.timestamps
    /\ op' = [name |-> "load", call |-> c, raised |-> r.raised, ret |-> r.ret,
              hit |-> get(CS, c.key, c.ttl, now).hit, down |-> c.table \in storeDown,
              written |-> Written(CS, r.cs)]
    /\ UNCHANGED <<now, lastSet, thr, storeVars, phase>>

\* The queries of a table start to fail (one table at a time).
StoreFail(table) ==
    /\ storeDown = {}
    /\ storeDown' = {table}
    /\ op' = [name |-> "store_fail", table |-> table]
    /\ UNCHANGED <<cache, timestamps, now, lastSet, thr, phase,
                   storeCourses, storeCourseTags, storeHistory, storeRatings>>

\* The store is reachable again.
StoreRecover ==
    /\ storeDown # {}
    /\ storeDown' = {}
    /\ op' = [name |-> "store_recover"]
    /\ UNCHANGED <<cache, timestamps, now, lastSet, thr, phase,
                   storeCourses, storeCourseTags, storeHistory, storeRatings>>

\* Loader calls and requests while tables of the store fail and recover.
NextFail ==
    \/ \E c \in LoaderCalls : Load(c)
    \/ \E u \in ChangedUsers, d \in DesiredChoices : GetRecommendations(u, d, 2)
    \/ \E table \in Tables : StoreFail(table)
    \/ StoreRecover
    \/ Tick(FailMaxTime)

SpecFail == InitRec /\ [][NextFail]_vars

\* ------------------------------------- every shape of data (SpecShapes)

\* The contents the store may have: an empty or a filled catalog, tag table
\* and ratings table, ratings of other users only, a rating of zero stars,
\* and histories that are empty, partial or complete.
CatalogChoices == {<<>>, Catalog}
TagTableChoices == {<<>>, TagTable}
RatingsChoices ==
    {{}, InitRatings, {r \in InitRatings : r.user_id # "u1"},
     {r \in InitRatings : ~(r.user_id = "u2" /\ r.course_id = "c2")}
        \cup {Stars("u2", "c2", 0, 0, 0, 0)}}
HistoryChoices == {[u \in Users |-> {}], InitHistory, [u \in Users |-> Items]}

InitShapes ==
    /\ cache = EmptyDict
    /\ timestamps = EmptyDict
    /\ now = 0
    /\ op = [name |-> "init"]
    /\ lastSet = <<>>
    /\ thr = IdleThreads
    /\ storeCourses \in CatalogChoices
    /\ storeCourseTags \in TagTableChoices
    /\ storeHistory \in HistoryChoices
    /\ storeRatings \in RatingsChoices
    /\ storeDown = {}
    /\ phase = [u \in Users |-> NoPhase]

\* Requests on a store that is always reachable.
NextShapes ==
    \E u \in ReqUsers, d \in DesiredChoices, n \in TopNs : GetRecommendations(u, d, n)

SpecShapes == InitShapes /\ [][NextShapes]_vars

\* ------------------------------------- similar users (SpecSimilar, SpecSimilarCache)

\* The values of top_n: one that cuts the list of the other users, and the
\* default.
SimilarTopNs == {1, SimilarTopN}

\* A user's rating of a course: absent, or present with one of the given stars.
RowChoices(user_id, course_id, stars) ==
    {{}} \cup {{Stars(user_id, course_id, q[1], q[2], q[3], q[4])} : q \in stars}

\* Ratings tables with rows that are absent, all zero, orthogonal, nearly
\* orthogonal (0.25 against 5 stars) and parallel.
SimilarRatingsChoices ==
    {a1 \cup a2 \cup b1 \cup b2 \cup c1 \cup c3 \cup {Stars("u3", "c2", 5, 5, 5, 5)} :
        a1 \in RowChoices("u1", "c1", {<<5, 5, 5, 5>>}),
        a2 \in RowChoices("u1", "c2", {<<1, 0, 0, 0>>, <<0, 0, 0, 0>>}),
        b1 \in RowChoices("u2", "c1", {<<5, 5, 5, 5>>}),
        b2 \in RowChoices("u2", "c2", {<<5, 5, 5, 5>>}),
        c1 \in RowChoices("u3", "c1", {<<4, 4, 4, 4>>}),
        c3 \in RowChoices("u3", "c3", {<<4, 4, 4, 4>>})}

InitSimilar ==
    /\ cache = EmptyDict
    /\ timestamps = EmptyDict
    /\ now = 0
    /\ op = [name |-> "init"]
    /\ lastSet = <<>>
    /\ thr = IdleThreads
    /\ storeCourses = Catalog
    /\ storeCourseTags = TagTable
    /\ storeHistory = InitHistory
    /\ storeRatings \in SimilarRatingsChoices
    /\ storeDown = {}
    /\ phase = [u \in Users |-> NoPhase]

\* A call of find_similar_users_cached.  phase keeps, per user, the result
\* of the last call that computed one instead of being served from the
\* cache, and the time of that call.  ratings_cached: the all-ratings entry
\* is stored and unexpired when the call starts.
FindSimilarUsers(user_id, top_n) ==
    \E cached \in {get(CS, SimilarUsersKey(user_id), 300, now)} :
    \E ratings \in {get(CS, AllRatingsKey, 300, now)} :
    \E r \in {find_similar_users_cached(CS, user_id, top_n)} :
        /\ cache' = r.cs.cache
        /\ timestamps' = r.cs.timestamps
        /\ op' = [name |-> "find_similar_users_cached", user_id |-> user_id,
                  top_n |-> top_n, raised |-> r.raised, ret |-> r.ret,
                  hit |-> cached.hit, ratings_cached |-> ratings.hit,
                  written |-> Written(CS, r.cs), phase |-> phase[user_id]]
        /\ phase' = [phase EXCEPT ![user_id] =
                        IF cached.hit /\ @.stage = "returned" THEN @
                        ELSE [stage |-> "returned", old_cached |-> FALSE,
                              old |-> r.ret, time |-> now]]
        /\ UNCHANGED <<now, lastSet, thr, storeVars>>

NextSimilar ==
    \E u \in Users, n \in SimilarTopNs : FindSimilarUsers(u, n)

SpecSimilar == InitSimilar /\ [][NextSimilar]_vars

\* The ratings at the start: those of InitRatings, with or without u1's.
CacheRatingsChoices == {InitRatings, {r \in InitRatings : r.user_id # "u1"}}

InitSimilarCache ==
    /\ cache = EmptyDict
    /\ timestamps = EmptyDict
    /\ now = 0
    /\ op = [name |-> "init"]
    /\ lastSet = <<>>
    /\ thr = IdleThreads
    /\ storeCourses = Catalog
    /\ storeCourseTags = TagTable
    /\ storeHistory = InitHistory
    /\ storeRatings \in CacheRatingsChoices
    /\ storeDown = {}
    /\ phase = [u \in Users |-> NoPhase]

\* Similar users fetched with the default top_n while time passes, ratings
\* change and users are invalidated.
NextSimilarCache ==
    \/ \E u \in ChangedUsers : FindSimilarUsers(u, SimilarTopN)
    \/ \E u \in ChangedUsers : InvalidateUser(u)
    \/ \E u \in ChangedUsers, c \in RatedItems, q \in NewStars : StoreRate(u, c, q)
    \/ Tick(MaxTime)

SpecSimilarCache == InitSimilarCache /\ [][NextSimilarCache]_vars

\* ------------------------------------- collaborative predictions (SpecPredict)

\* Ratings tables in which the target u1 has zero, one or two similar
\* users, who rate the courses differently or not at all.
PredictRatingsChoices ==
    {a1 \cup a2 \cup b2 \cup b3 \cup c1 \cup c3 \cup {Stars("u2", "c1", 5, 5, 5, 5)} :
        a1 \in RowChoices("u1", "c1", {<<5, 5, 5, 5>>}),
        a2 \in RowChoices("u1", "c2", {<<3, 3, 3, 3>>}),
        b2 \in RowChoices("u2", "c2", {<<5, 5, 5, 5>>}),
        b3 \in RowChoices("u2", "c3", {<<1, 1, 2, 1>>}),
        c1 \in RowChoices("u3", "c1", {<<3, 3, 3, 3>>}),
        c3 \in RowChoices("u3", "c3", {<<5, 5, 5, 5>>, <<4, 5, 4, 4>>})}

\* The candidate lists passed to predict_ratings_collaborative.
CandidateChoices == {{"c3"}, {"c2", "c3"}, {"c1", "c2", "c3"}}

InitPredict ==
    /\ cache = EmptyDict
    /\ timestamps = EmptyDict
    /\ now = 0
    /\ op = [name |-> "init"]
    /\ lastSet = <<>>
    /\ thr = IdleThreads
    /\ storeCourses = Catalog
    /\ storeCourseTags = TagTable
    /\ storeHistory = InitHistory
    /\ storeRatings \in PredictRatingsChoices
    /\ storeDown = {}
    /\ phase = [u \in Users |-> NoPhase]

\* A call of predict_ratings_collaborative; similar_users and all_ratings
\* are what the call gets from lines 245 and 256.
PredictRatings(user_id, candidate_courses) ==
    \E similar_users \in {find_similar_users_cached(CS, user_id, SimilarTopN)} :
    \E all_ratings \in {load_all_ratings_for_collaborative(similar_users.cs)} :
    \E r \in {predict_ratings_collaborative(CS, user_id, candidate_courses)} :
        /\ cache' = r.cs.cache
        /\ timestamps' = r.cs.timestamps
        /\ op' = [name |-> "predict_ratings_collaborative", user_id |-> user_id,
                  candidate_courses |-> candidate_courses,
                  raised |-> r.raised, ret |-> r.ret,
                  similar_users |-> similar_users.ret,
                  all_ratings |-> all_ratings.ret,
                  written |-> Written(CS, r.cs)]
        /\ UNCHANGED <<now, lastSet, thr, storeVars, phase>>

NextPredict ==
    \E u \in ReqUsers, c \in CandidateChoices : PredictRatings(u, c)

SpecPredict == InitPredict /\ [][NextPredict]_vars

\* ------------------------------------- content scores (SpecContent)

\* Eleven tag names, enough for the fallback score of one course to pass 5.0.
ManyTagNames == <<"t1", "t2", "t3", "t4", "t5", "t6", "t7", "t8", "t9", "t10", "t11">>

\* Item-tag tables: empty, the usual one, one tag only, and a course with
\* eleven tags.
ContentTagTables ==
    {<<>>, TagTable, <<[course_id |-> "c2", tag |-> "t2"]>>,
     [i \in 1..11 |-> [course_id |-> "c1", tag |-> ManyTagNames[i]]]
        \o <<[course_id |-> "c2", tag |-> "t1"]>>}

\* The arguments of calculate_content_scores.
ContentCandidates == {<<"c1", "c2", "c3">>, <<"c2", "c3">>, <<"c3">>}
ContentProfiles ==
    {EmptySeries, [t \in {"t1"} |-> 4400], [t \in {"t2"} |-> 0],
     [t \in {"t1", "t2"} |-> IF t = "t1" THEN 5500 ELSE 3000]}
ContentDesired == {{}, {"t2"}, {"t1", "t2"}}

InitContent ==
    /\ cache = EmptyDict
    /\ timestamps = EmptyDict
    /\ now = 0
    /\ op = [name |-> "init"]
    /\ lastSet = <<>>
    /\ thr = IdleThreads
    /\ storeCourses = Catalog
    /\ storeCourseTags \in ContentTagTables
    /\ storeHistory = InitHistory
    /\ storeRatings = InitRatings
    /\ storeDown = {}
    /\ phase = [u \in Users |-> NoPhase]

\* A call of calculate_content_scores; course_tags is what line 342 loads.
CalculateContentScores(candidate_courses, user_tag_profile, desired_tags) ==
    \E course_tags \in {load_course_tags(CS)} :
    \E r \in {calculate_content_scores(CS, candidate_courses, user_tag_profile,
                                        desired_tags)} :
        /\ cache' = r.cs.cache
        /\ timestamps' = r.cs.timestamps
        /\ op' = [name |-> "calculate_content_scores",
                  candidate_courses |-> candidate_courses,
                  user_tag_profile |-> user_tag_profile,
                  desired_tags |-> desired_tags,
                  raised |-> r.raised, ret |-> r.ret,
                  course_tags |-> course_tags.ret,
                  written |-> Written(CS, r.cs)]
        /\ UNCHANGED <<now, lastSet, thr, storeVars, phase>>

NextContent ==
    \E c \in ContentCandidates, p \in ContentProfiles, d \in ContentDesired :
        CalculateContentScores(c, p, d)

SpecContent == InitContent /\ [][NextContent]_vars

\* ------------------------------------- similar users of several users (SpecMatrix)

\* Similar users fetched for two users while one of them changes ratings
\* and is invalidated.
NextMatrix ==
    \/ \E u \in ReqUsers : FindSimilarUsers(u, SimilarTopN)
    \/ \E u \in ChangedUsers : InvalidateUser(u)
    \/ \E u \in ChangedUsers, c \in RatedItems, q \in NewStars : StoreRate(u, c, q)
    \/ Tick(MaxTime)

SpecMatrix == InitRec /\ [][NextMatrix]_vars

\* ------------------------------------- the ttl of every consumer (SpecTtl)

\* The consumers of the cache: the loaders, and the two computations whose
\* result is cached per user.
ConsumerCalls ==
    LoaderCalls
    \cup {LoaderCall("build_user_tag_profile", TagProfileKey(u), 300, "ratings") :
             u \in ChangedUsers}
    \cup {LoaderCall("find_similar_users_cached", SimilarUsersKey(u), 300, "ratings") :
             u \in ChangedUsers}

\* The consumer of a call, applied to the cache cs.
CallConsumer(c, cs) ==
    CASE c.loader = "build_user_tag_profile" -> build_user_tag_profile(cs, c.key[2])
      [] c.loader = "find_similar_users_cached" ->
            find_similar_users_cached(cs, c.key[2], SimilarTopN)
      [] OTHER -> CallLoader(c, cs)

\* A consumer is called.  stored, age: its entry before the call.  served:
\* the entry is still there, untouched, and nothing else was written, i.e.
\* the value came from the cache without a store call.
Consume(c) ==
    \E r \in {CallConsumer(c, CS)} :
    /\ cache' = r.cs.cache
    /\ timestamps' = r.cs.timestamps
    /\ op' = [name |-> "consume", call |-> c, raised |-> r.raised,
              stored |-> c.key \in DOMAIN cache,
              age |-> IF c.key \in DOMAIN cache THEN now - timestamps[c.key] ELSE 0,
              served |-> /\ c.key \in DOMAIN cache
                         /\ c.key \in DOMAIN r.cs.cache
                         /\ Written(CS, r.cs) = {},
              written |-> Written(CS, r.cs)]
    /\ UNCHANGED <<now, lastSet, thr, storeVars, phase>>

\* The clock values of the ttl specification after 0: entries are read 0,
\* 300 and 600 s after their set.
TtlTimes == {300, 600}

\* The clock advances to a later value.
TickTo(t) ==
    /\ t > now
    /\ now' = t
    /\ op' = [name |-> "tick", time |-> t]
    /\ UNCHANGED <<cache, timestamps, lastSet, thr, storeVars, phase>>

NextTtl ==
    \/ \E c \in ConsumerCalls : Consume(c)
    \/ \E t \in TtlTimes : TickTo(t)

SpecTtl == InitRec /\ [][NextTtl]_vars

\* ------------------------------------- degenerate similarities (SpecDegenerate)

\* Ratings tables in which the target u1 has no row, an all-zero row, or a
\* row orthogonal or nearly orthogonal to another user's.
DegenerateRatingsChoices ==
    {a1 \cup a2 \cup b2 \cup c3
        \cup {Stars("u2", "c1", 5, 5, 5, 5), Stars("u3", "c2", 5, 5, 5, 5)} :
        a1 \in RowChoices("u1", "c1", {<<5, 5, 5, 5>>}),
        a2 \in RowChoices("u1", "c2", {<<1, 0, 0, 0>>, <<0, 0, 0, 0>>}),
        b2 \in RowChoices("u2", "c2", {<<5, 5, 5, 5>>}),
        c3 \in RowChoices("u3", "c3", {<<4, 4, 4, 4>>})}

InitDegenerate ==
    /\ cache = EmptyDict
    /\ timestamps = EmptyDict
    /\ now = 0
    /\ op = [name |-> "init"]
    /\ lastSet = <<>>
    /\ thr = IdleThreads
    /\ storeCourses = Catalog
    /\ storeCourseTags = TagTable
    /\ storeHistory = InitHistory
    /\ storeRatings \in DegenerateRatingsChoices
    /\ storeDown = {}
    /\ phase = [u \in Users |-> NoPhase]

NextDegenerate ==
    \E u \in ReqUsers, c \in CandidateChoices : PredictRatings(u, c)

SpecDegenerate == InitDegenerate /\ [][NextDegenerate]_vars

\* ------------------------------------- loaders in flight (SpecRace)

\* A request thread outside load_user_ratings.
IdleLoader == [pc |-> "idle", user_id |-> None, rows |-> {}]

\* The rating rows of a user as load_user_ratings derives them from the
\* store (lines 134-149).
RatingRows(user_id) ==
    {[user_id |-> r.user_id, course_id |-> r.course_id, rating |-> DerivedRating(r)] :
        r \in {x \in storeRatings : x.user_id = user_id}}

InitRace ==
    /\ cache = EmptyDict
    /\ timestamps = EmptyDict
    /\ now = 0
    /\ op = [name |-> "init"]
    /\ lastSet = <<>>
    /\ thr = [t \in Threads |-> IdleLoader]
    /\ storeCourses = Catalog
    /\ storeCourseTags = TagTable
    /\ storeHistory = InitHistory
    /\ storeRatings = InitRatings
    /\ storeDown = {}
    /\ phase = [u \in Users |-> NoPhase]

\* Thread t enters load_user_ratings(user_id): the read of the cache (line
\* 128).  On a hit the call returns; invalidated tells that the user's
\* entries had been invalidated, with no change of ratings since.
LoadRatingsGet(t, user_id) ==
    /\ thr[t].pc = "idle"
    /\ \E cached \in {get(CS, RatingsKey(user_id), 60, now)} :
          /\ cache' = cached.cs.cache
          /\ timestamps' = cached.cs.timestamps
          /\ IF cached.hit
             THEN /\ op' = [name |-> "load_user_ratings", thread |-> t,
                            user_id |-> user_id, hit |-> TRUE, ret |-> cached.val,
                            invalidated |-> phase[user_id].stage = "invalidated"]
                  /\ thr' = thr
             ELSE /\ op' = [name |-> "load_user_ratings_miss", thread |-> t,
                            user_id |-> user_id]
                  /\ thr' = [thr EXCEPT ![t] = [pc |-> "query", user_id |-> user_id,
                                                rows |-> {}]]
    /\ UNCHANGED <<now, lastSet, storeVars, phase>>

\* Thread t queries the store (lines 134-149).
LoadRatingsQuery(t) ==
    /\ thr[t].pc = "query"
    /\ thr' = [thr EXCEPT ![t] = [pc |-> "set", user_id |-> thr[t].user_id,
                                  rows |-> RatingRows(thr[t].user_id)]]
    /\ op' = [name |-> "load_user_ratings_query", thread |-> t,
              user_id |-> thr[t].user_id]
    /\ UNCHANGED <<cache, timestamps, now, lastSet, storeVars, phase>>

\* Thread t caches what it read and returns it (lines 152-153).
LoadRatingsSet(t) ==
    /\ thr[t].pc = "set"
    /\ \E cs \in {set(CS, RatingsKey(thr[t].user_id), thr[t].rows, now)} :
          /\ cache' = cs.cache
          /\ timestamps' = cs.timestamps
    /\ op' = [name |-> "load_user_ratings", thread |-> t,
              user_id |-> thr[t].user_id, hit |-> FALSE, ret |-> thr[t].rows,
              invalidated |-> FALSE]
    /\ thr' = [thr EXCEPT ![t] = IdleLoader]
    /\ UNCHANGED <<now, lastSet, storeVars, phase>>

\* Requests load a user's ratings on two threads while the ratings change
\* and the caller invalidates the user.
NextRace ==
    \/ \E t \in Threads, u \in ChangedUsers : LoadRatingsGet(t, u)
    \/ \E t \in Threads : LoadRatingsQuery(t)
    \/ \E t \in Threads : LoadRatingsSet(t)
    \/ \E u \in ChangedUsers, c \in RatedItems, q \in NewStars : StoreRate(u, c, q)
    \/ \E u \in ChangedUsers : InvalidateUser(u)

SpecRace == InitRace /\ [][NextRace]_vars

\* ------------------------------------- equal final scores (SpecRanking)

\* A catalog whose courses have the same average rating, and one where two
\* of three have.
TiedCatalogs ==
    {<<[id |-> "c1", rating |-> 3000], [id |-> "c2", rating |-> 3000],
       [id |-> "c3", rating |-> 3000]>>,
     <<[id |-> "c1", rating |-> 3000], [id |-> "c2", rating |-> 4000],
       [id |-> "c3", rating |-> 3000]>>}

InitRanking ==
    /\ cache = EmptyDict
    /\ timestamps = EmptyDict
    /\ now = 0
    /\ op = [name |-> "init"]
    /\ lastSet = <<>>
    /\ thr = IdleThreads
    /\ storeCourses \in TiedCatalogs
    /\ storeCourseTags \in TagTableChoices
    /\ storeHistory = [u \in Users |-> {}]
    /\ storeRatings \in {{}, InitRatings}
    /\ storeDown = {}
    /\ phase = [u \in Users |-> NoPhase]

NextRanking ==
    \E u \in ReqUsers, d \in DesiredChoices, n \in TopNs : GetRecommendations(u, d, n)

SpecRanking == InitRanking /\ [][NextRanking]_vars

\* ------------------------------------- generate_reasons on its own (SpecReasons)

\* The rows, tag profiles and desired tags generate_reasons is applied to:
\* scores on both sides of the 4.0 and 4.5 thresholds.
ReasonCollabScores == {0, 3999, 4000, 4499, 4500}
ReasonContentScores == {0, 2500}
ReasonAvgRatings == {0, 4499, 4500}
ReasonTagLists == {<<>>, <<"t1">>, <<"t2">>, <<"t1", "t2">>}
ReasonProfiles == {EmptySeries, [t \in {"t1"} |-> 4400],
                   [t \in Tags |-> IF t = "t1" THEN 3300 ELSE 4950]}
ReasonDesired == {{}, {"t1"}, {"t2"}}

InitReasons ==
    /\ cache = EmptyDict
    /\ timestamps = EmptyDict
    /\ now = 0
    /\ lastSet = <<>>
    /\ thr = IdleThreads
    /\ IdleStore
    /\ \E cf \in ReasonCollabScores, ct \in ReasonContentScores,
          avg \in ReasonAvgRatings, tags \in ReasonTagLists,
          profile \in ReasonProfiles, desired \in ReasonDesired :
          op = [name |-> "row",
                row |-> [collab_score |-> cf, content_score |-> ct,
                         avg_rating |-> avg, tags |-> tags],
                user_tag_profile |-> profile, desired_tags |-> desired]

\* generate_reasons is applied to the row.
GenerateReasons ==
    /\ op.name = "row"
    /\ op' = [name |-> "generate_reasons", row |-> op.row,
              user_tag_profile |-> op.user_tag_profile,
              desired_tags |-> op.desired_tags,
              reasons |-> generate_reasons(op.row, op.user_tag_profile, op.desired_tags)]
    /\ UNCHANGED <<cache, timestamps, now, lastSet, thr, storeVars, phase>>

NextReasons == GenerateReasons

SpecReasons == InitReasons /\ [][NextReasons]_vars

\* ------------------------------------------------------------ claims C1-C4

\* C1 as stated: a get(k, ttl) issued less than ttl after the most recent
\* set(k, v), with no invalidate(k) or clear() since that set, returns v.
C1_AsStated ==
    (op.name = "get" /\ lastSet[op.key].valid
        /\ op.time - lastSet[op.key].time < op.ttl)
    => op.ret = lastSet[op.key].val

\* C1 (amended): a get(k, ttl) issued less than ttl after the most recent
\* set(k, v) returns exactly v, provided that since that set there was no
\* invalidate(k), no clear() and no get(k, ttl2) that found the entry expired
\* under its own (smaller) ttl2 and evicted it.
C1_SetThenGetReturnsValue ==
    (op.name = "get" /\ lastSet[op.key].valid /\ ~lastSet[op.key].evicted
        /\ op.time - lastSet[op.key].time < op.ttl)
    => op.ret = lastSet[op.key].val

\* C1 witness: a read, some time after the set, that returns the value set.
C1_Witness ==
    /\ op.name = "get"
    /\ lastSet[op.key].valid /\ ~lastSet[op.key].evicted
    /\ op.time > lastSet[op.key].time
    /\ op.time - lastSet[op.key].time < op.ttl
    /\ op.ret = lastSet[op.key].val

\* C2: a get(k, ttl) of a stored key whose age is >= ttl (the boundary
\* included) returns None and deletes k from both dicts; and a key leaves
\* the cache only through such a read, an invalidate of it or a clear: the
\* passing of time alone removes nothing.
C2_ExpiredReadEvicts ==
    [][ /\ \A k \in Keys, ttl \in TTLs :
              (Get(k, ttl) /\ k \in DOMAIN cache /\ now - timestamps[k] >= ttl)
              => /\ op'.ret = None
                 /\ k \notin DOMAIN cache'
                 /\ k \notin DOMAIN timestamps'
        /\ \A k \in (DOMAIN cache) \ (DOMAIN cache') :
              \/ op'.name = "get" /\ op'.key = k /\ now - timestamps[k] >= op'.ttl
              \/ op'.name = "invalidate" /\ op'.key = k
              \/ op'.name = "clear"
      ]_vars

\* C2 witness: a read at the boundary age = ttl that found the key stored,
\* returned None and left the key in neither dict.
C2_Witness ==
    /\ op.name = "get" /\ op.stored /\ op.ret = None
    /\ lastSet[op.key].valid
    /\ op.time - lastSet[op.key].time = op.ttl
    /\ op.key \notin DOMAIN cache
    /\ op.key \notin DOMAIN timestamps

\* C3: invalidate(k) leaves k in neither dict, keeps every other key with
\* its value and timestamp, and changes nothing when k is not stored.
C3_InvalidateRemovesOnlyKey ==
    [][ \A k \in Keys :
          Invalidate(k)
          => /\ k \notin DOMAIN cache'
             /\ k \notin DOMAIN timestamps'
             /\ (DOMAIN cache') = (DOMAIN cache) \ {k}
             /\ (DOMAIN timestamps') = (DOMAIN timestamps) \ {k}
             /\ \A j \in (DOMAIN cache) \ {k} :
                    cache'[j] = cache[j] /\ timestamps'[j] = timestamps[j]
             /\ (k \notin DOMAIN cache => UNCHANGED <<cache, timestamps>>)
      ]_vars

\* C3 witness: a stored key was invalidated and the other key is still stored.
C3_Witness ==
    /\ op.name = "invalidate" /\ op.stored
    /\ DOMAIN cache = Keys \ {op.key}
    /\ DOMAIN cache # {}

\* C4: right after clear() both dicts are empty and get(k, ttl) returns None
\* for every key and every ttl.
C4_ClearEmptiesCache ==
    op.name = "clear"
    => /\ DOMAIN cache = {}
       /\ DOMAIN timestamps = {}
       /\ \A k \in Keys, ttl \in TTLs :
             LET r == get(CS, k, ttl, now) IN ~r.hit /\ r.val = None

\* C4 witness: clear() ran on a cache that held every key.
C4_Witness == op.name = "clear" /\ op.stored = Keys /\ DOMAIN cache = {}

\* ------------------------------------------------------------------ claim C5

\* C5: under every interleaving of the steps of concurrent get / set /
\* invalidate calls no call fails (no KeyError from a timestamp or value that
\* another call has just removed), and whenever no call is in progress the
\* store is one a sequential order of calls could have produced: the two
\* dicts hold the same keys.
C5_ConcurrentCallsSafe ==
    /\ \A t \in DOMAIN thr : thr[t].pc # "failed"
    /\ (\A t \in DOMAIN thr : thr[t].pc = "idle")
          => DOMAIN cache = DOMAIN timestamps

\* ------------------------------------------------------------ claims C6-C10

\* The course ids of the rows of a frame.
CourseIds(frame) == {frame[i].course_id : i \in DOMAIN frame}

\* C6 as stated: no course_id returned by get_recommendations(U, ...) is in
\* U's history (the history the store holds at the call).
C6_AsStated ==
    op.name = "get_recommendations"
    => CourseIds(op.results) \cap storeHistory[op.user_id] = {}

\* C6 (amended): no course_id returned by get_recommendations(U, ...) is in
\* the history the call loaded, which is the store's history whenever U's
\* history entry was not served from the cache (first request, entry older
\* than 60 s, or entry invalidated); a history change made less than 60 s
\* after the entry was cached, and not followed by an invalidation, is not
\* seen.
C6_ExcludesLoadedHistory ==
    op.name = "get_recommendations"
    => /\ CourseIds(op.results) \cap op.taken = {}
       /\ ~op.history_cached =>
              /\ op.taken = storeHistory[op.user_id]
              /\ CourseIds(op.results) \cap storeHistory[op.user_id] = {}

\* C6 witness: a request that read a changed history from the store and
\* returned courses, none of them taken.
C6_Witness ==
    /\ op.name = "get_recommendations"
    /\ ~op.history_cached
    /\ storeHistory[op.user_id] # InitHistory[op.user_id]
    /\ op.results # <<>>
    /\ CourseIds(op.results) \cap storeHistory[op.user_id] = {}

\* C7: the list returned by get_recommendations has at most top_n entries
\* and is sorted non-increasing by final_score; when there are at least
\* top_n candidates it has exactly top_n entries and no omitted candidate
\* has a final_score greater than a returned one.
C7_TopNSortedByFinalScore ==
    op.name = "get_recommendations"
    => /\ Len(op.results) <= op.top_n
       /\ \A i \in 1..(Len(op.results) - 1) :
              op.results[i].final_score >= op.results[i + 1].final_score
       /\ Len(op.scored) >= op.top_n =>
              /\ Len(op.results) = op.top_n
              /\ \A i \in DOMAIN op.scored, j \in DOMAIN op.results :
                     op.scored[i].course_id \notin CourseIds(op.results)
                     => op.scored[i].final_score <= op.results[j].final_score

\* C7 witness: more candidates than top_n, with different scores, the first
\* candidate in input order being the omitted one.
C7_Witness ==
    /\ op.name = "get_recommendations"
    /\ Len(op.scored) > op.top_n
    /\ Len(op.results) = op.top_n
    /\ op.scored[1].course_id \notin CourseIds(op.results)
    /\ \E j \in DOMAIN op.results :
           op.scored[1].final_score < op.results[j].final_score

\* C8: generate_reasons returns at least one reason, and the generic
\* popularity fallback appears only when nothing else applies (no peer
\* rating >= 4.0, no tag of the course in the profile, no desired tag on
\* the course, average rating < 4.5, content score not positive), and then
\* it is the single reason.
C8_ReasonsNeverEmpty ==
    op.name = "generate_reasons"
    => /\ Len(op.reasons) >= 1
       /\ (\E i \in DOMAIN op.reasons : op.reasons[i] = FallbackReason)
          => /\ op.reasons = <<FallbackReason>>
             /\ op.row.collab_score < 4000
             /\ Range(op.row.tags) \cap DOMAIN op.user_tag_profile = {}
             /\ Range(op.row.tags) \cap op.desired_tags = {}
             /\ op.row.avg_rating < 4500
             /\ op.row.content_score <= 0

\* C8 witness: a row nothing applies to, explained by the fallback alone.
C8_Witness ==
    /\ op.name = "generate_reasons"
    /\ op.row.tags # <<>>
    /\ DOMAIN op.user_tag_profile # {}
    /\ op.desired_tags # {}
    /\ op.reasons = <<FallbackReason>>

\* The five entries invalidate_user_cache(user_id) is to remove.
UserEntries(user_id) ==
    {RatingsKey(user_id), HistoryKey(user_id), TagProfileKey(user_id),
     SimilarUsersKey(user_id), AllRatingsKey}

\* C9: invalidate_user_cache(U) removes U's ratings, history, tag profile
\* and similar-users entries and the shared all-ratings entry, and leaves
\* every other entry with its value and timestamp.
C9_InvalidateUserRemovesFive ==
    [][ \A u \in ReqUsers :
          InvalidateUser(u)
          => /\ DOMAIN cache' = (DOMAIN cache) \ UserEntries(u)
             /\ DOMAIN timestamps' = (DOMAIN timestamps) \ UserEntries(u)
             /\ \A k \in (DOMAIN cache) \ UserEntries(u) :
                    cache'[k] = cache[k] /\ timestamps'[k] = timestamps[k]
      ]_vars

\* C9 witness: all five entries were stored when the user was invalidated,
\* and the tables and another user's four entries are still stored.
C9_Witness ==
    /\ op.name = "invalidate_user_cache"
    /\ UserEntries(op.user_id) \subseteq op.stored
    /\ DOMAIN cache = op.stored \ UserEntries(op.user_id)
    /\ {CoursesKey, CourseTagsKey} \subseteq DOMAIN cache
    /\ \E v \in Users \ {op.user_id} :
           {RatingsKey(v), HistoryKey(v), TagProfileKey(v), SimilarUsersKey(v)}
               \subseteq DOMAIN cache

\* The tag profile the store's current ratings of a user give.
ProfileOfStore(user_id) ==
    tag_profile_of(
        {[user_id |-> r.user_id, course_id |-> r.course_id, rating |-> DerivedRating(r)] :
            r \in {x \in storeRatings : x.user_id = user_id}},
        SelectSeq(storeCourseTags, LAMBDA row : row.tag # "")).profile

\* C10: a fetch of tag_profile(U) that follows invalidate_user_cache(U) and
\* then a change of U's ratings in the store reads U's ratings from the
\* store again and returns the profile of the store's current ratings: when
\* the change alters the profile, the profile returned is not the one cached
\* before the invalidation.
C10_RefetchReflectsChange ==
    (op.name = "build_user_tag_profile" /\ op.phase.stage = "changed")
    => /\ RatingsKey(op.user_id) \in op.written
       /\ cache[RatingsKey(op.user_id)] =
              {[user_id |-> r.user_id, course_id |-> r.course_id,
                rating |-> DerivedRating(r)] :
                  r \in {x \in storeRatings : x.user_id = op.user_id}}
       /\ op.profile = ProfileOfStore(op.user_id)
       /\ (op.phase.old_cached /\ ProfileOfStore(op.user_id) # op.phase.old)
              => op.profile # op.phase.old

\* C10 witness: a profile was cached, the user invalidated, the ratings
\* changed, and the fetch returned a different profile.
C10_Witness ==
    /\ op.name = "build_user_tag_profile"
    /\ op.phase.stage = "changed"
    /\ op.phase.old_cached
    /\ op.profile # op.phase.old
    /\ op.profile = ProfileOfStore(op.user_id)

\* ----------------------------------------------------------- claims C11-C20

\* The table a cache key is loaded from (no table for the derived entries).
TableOf(key) ==
    CASE key = CoursesKey -> {"courses"}
      [] key = CourseTagsKey -> {"course_tag"}
      [] key = AllRatingsKey -> {"ratings"}
      [] key[1] = "history_" -> {"history"}
      [] key[1] = "ratings_" -> {"ratings"}
      [] OTHER -> {}

\* C11: a loader called on a cache miss while its table is unreachable
\* raises instead of returning a table, and leaves no entry for its key and
\* every other entry as it was; a miss with the table reachable returns and
\* caches the store's rows (so the call after a failure reads the store
\* again); and get_recommendations ends with the loader's exception: when it
\* returns, nothing it cached came from an unreachable table.
C11_StoreFailurePropagates ==
    [][ /\ \A c \in LoaderCalls :
              (op'.name = "load" /\ op'.call = c /\ Load(c)
                  /\ ~get(CS, c.key, c.ttl, now).hit)
              => IF c.table \in storeDown
                 THEN /\ op'.raised = StoreError
                      /\ c.key \notin DOMAIN cache'
                      /\ DOMAIN cache' = (DOMAIN cache) \ {c.key}
                      /\ \A k \in DOMAIN cache' :
                             cache'[k] = cache[k] /\ timestamps'[k] = timestamps[k]
                 ELSE /\ op'.raised = None
                      /\ c.key \in DOMAIN cache'
                      /\ cache'[c.key] = op'.ret
                      /\ timestamps'[c.key] = now
        /\ \A u \in ChangedUsers, d \in DesiredChoices :
              (op'.name = "get_recommendations" /\ GetRecommendations(u, d, 2))
              => /\ op'.raised = None
                    => \A k \in op'.written : TableOf(k) \cap storeDown = {}
                 /\ (\/ "courses" \in storeDown /\ ~get(CS, CoursesKey, 600, now).hit
                     \/ "history" \in storeDown /\ ~get(CS, HistoryKey(u), 60, now).hit)
                    => op'.raised = StoreError /\ op'.results = <<>>
                 /\ op'.raised = StoreError
                    => \A k \in op'.written : TableOf(k) \cap storeDown = {}
      ]_vars

\* C11 witness: a loader found its entry expired, its table unreachable,
\* raised, and left no entry for the key.
C11_Witness ==
    /\ op.name = "load"
    /\ op.down /\ ~op.hit
    /\ op.raised = StoreError
    /\ now > 0
    /\ op.call.key \notin DOMAIN cache
    /\ DOMAIN cache # {}

\* C12: while every store call succeeds (in SpecShapes the store is always
\* reachable), get_recommendations does not raise, whatever the shape of
\* the data.
C12_NeverRaisesOnShape ==
    op.name = "get_recommendations" => op.raised = None

\* The catalog items that are candidates for a request as the claims define
\* them: outside the loaded history and, when desired tags are given,
\* carrying at least one of them.
Eligible(taken, desired_tags) ==
    {storeCourses[i].id : i \in
        {j \in DOMAIN storeCourses :
            /\ storeCourses[j].id \notin taken
            /\ desired_tags # {} =>
                  \E t \in DOMAIN storeCourseTags :
                      /\ storeCourseTags[t].course_id = storeCourses[j].id
                      /\ storeCourseTags[t].tag \in desired_tags}}

\* C13: when no candidate remains after history exclusion and desired-tag
\* filtering, get_recommendations returns an empty list without raising,
\* and the call creates no similar-users or tag-profile entry.
C13_EmptyCandidatesReturnEmpty ==
    (op.name = "get_recommendations" /\ Eligible(op.taken, op.desired_tags) = {})
    => /\ op.raised = None
       /\ op.results = <<>>
       /\ op.written \cap {SimilarUsersKey(op.user_id), TagProfileKey(op.user_id)} = {}

\* C14: with desired_tags given, every item get_recommendations returns
\* carries at least one desired tag, for every state of the item-tag table.
C14_ReturnedItemsCarryDesiredTag ==
    (op.name = "get_recommendations" /\ op.desired_tags # {})
    => \A i \in DOMAIN op.results :
           \E t \in DOMAIN storeCourseTags :
               /\ storeCourseTags[t].course_id = op.results[i].course_id
               /\ storeCourseTags[t].tag \in op.desired_tags

\* The user-item matrix of the ratings in the store.
StoreMatrix == build_user_item_matrix({[user_id |-> r.user_id, course_id |-> r.course_id, rating |-> DerivedRating(r)] : r \in storeRatings})

C16_SecondCallServedFromCache ==
    (/\ op.name = "find_similar_users_cached"
     /\ op.phase.stage = "returned"
     /\ now - op.phase.time < 300)
    => /\ op.hit
       /\ op.ret = op.phase.old
       /\ AllRatingsKey \notin op.written

\* The ratings of course c by the similar users of the last
\* predict_ratings_collaborative call.
Contributing(c) ==
    {r \in op.all_ratings : r.user_id \in DOMAIN op.similar_users /\ r.course_id = c}

\* C17: every collaborative prediction equals sum(rating * similarity) /
\* sum(similarity) over the similar users who rated the item, and lies
\* between the smallest and the largest of their ratings of it.
C17_PredictionIsWeightedMean ==
    op.name = "predict_ratings_collaborative"
    => \A c \in DOMAIN op.ret :
          /\ Contributing(c) # {}
          /\ op.ret[c] =
                SumFn([r \in Contributing(c) |-> r.rating * op.similar_users[r.user_id]],
                      Contributing(c))
                \div SumFn([r \in Contributing(c) |-> op.similar_users[r.user_id]],
                           Contributing(c))
          /\ \E lo, hi \in Contributing(c) :
                /\ \A r \in Contributing(c) : lo.rating <= r.rating /\ r.rating <= hi.rating
                /\ lo.rating <= op.ret[c] /\ op.ret[c] <= hi.rating

\* C17 witness: a prediction from two similar users with different
\* similarities and different ratings, strictly between the two ratings.
C17_Witness ==
    /\ op.name = "predict_ratings_collaborative"
    /\ \E c \in DOMAIN op.ret : \E r1, r2 \in Contributing(c) :
          /\ op.similar_users[r1.user_id] # op.similar_users[r2.user_id]
          /\ r1.rating < op.ret[c] /\ op.ret[c] < r2.rating

\* C18: predict_ratings_collaborative yields a prediction for an item
\* exactly when the item is a candidate and a similar user has rated it;
\* other candidates are absent from the result, which is empty when there
\* is no similar user or none rated a candidate.
C18_PredictionIffRatedBySimilar ==
    op.name = "predict_ratings_collaborative"
    => /\ DOMAIN op.ret = {c \in op.candidate_courses : Contributing(c) # {}}
       /\ DOMAIN op.similar_users = {} => op.ret = EmptySeries

\* C18 witness: one candidate has a prediction and another has none.
C18_Witness ==
    /\ op.name = "predict_ratings_collaborative"
    /\ DOMAIN op.ret # {}
    /\ op.candidate_courses \ DOMAIN op.ret # {}

\* The tag rows of course c among those the last calculate_content_scores
\* call loaded.
TagRowsOf(c) == {i \in DOMAIN op.course_tags : op.course_tags[i].course_id = c}

\* The score of candidate c before the normalization (lines 357-389): the
\* preferences of its tags plus 2.0 per desired tag, or, when that is 0 for
\* every candidate, 0.5 per tag.
SummedScore(c) ==
    SumFn([i \in TagRowsOf(c) |->
              (IF op.course_tags[i].tag \in DOMAIN op.user_tag_profile
               THEN op.user_tag_profile[op.course_tags[i].tag] ELSE 0)
              + (IF op.course_tags[i].tag \in op.desired_tags THEN 2000 ELSE 0)],
          TagRowsOf(c))
RawScore(c) ==
    IF \A x \in Range(op.candidate_courses) : SummedScore(x) = 0
    THEN 500 * Cardinality(TagRowsOf(c))
    ELSE SummedScore(c)

\* C19: calculate_content_scores returns one score per candidate, each in
\* [0, 5]; a candidate without tags scores 0; when the largest raw score
\* exceeds 5.0 every score is the raw one times 5.0 / largest, so that the
\* largest is exactly 5.0, and otherwise every score is the raw one.
C19_ContentScoresWithinFive ==
    op.name = "calculate_content_scores"
    => LET ids == Range(op.candidate_courses)
           largest == MaxFn([c \in ids |-> RawScore(c)], ids)
       IN /\ DOMAIN op.ret = ids
          /\ \A c \in ids :
                /\ 0 <= op.ret[c] /\ op.ret[c] <= 5000
                /\ TagRowsOf(c) = {} => op.ret[c] = 0
                /\ largest > 5000 => op.ret[c] = (RawScore(c) * 5000) \div largest
                /\ largest <= 5000 => op.ret[c] = RawScore(c)
          /\ largest > 5000 => \E c \in ids : op.ret[c] = 5000

\* C19 witness: raw scores above 5.0 were scaled down, an untagged
\* candidate scoring 0 beside them.
C19_Witness ==
    /\ op.name = "calculate_content_scores"
    /\ \E c \in Range(op.candidate_courses) : RawScore(c) > 5000 /\ op.ret[c] = 5000
    /\ \E c \in Range(op.candidate_courses) :
          /\ 0 < op.ret[c] /\ op.ret[c] < RawScore(c) /\ op.ret[c] < 5000
    /\ \E c \in Range(op.candidate_courses) : TagRowsOf(c) = {} /\ op.ret[c] = 0

InputPosition(course_id) ==
    CHOOSE k \in DOMAIN op.scored : op.scored[k].course_id = course_id

\* C21: candidates with equal final scores appear in the result in their
\* input order, and of a group of equal scores cut by top_n the earlier
\* candidates in input order are the ones kept.
C21_TiesKeepInputOrder ==
    (op.name = "get_recommendations" /\ op.raised = None)
    => /\ \A i, j \in DOMAIN op.results :
              (i < j /\ op.results[i].final_score = op.results[j].final_score)
              => InputPosition(op.results[i].course_id)
                    < InputPosition(op.results[j].course_id)
       /\ \A k \in DOMAIN op.scored, j \in DOMAIN op.results :
              (/\ op.scored[k].course_id \notin CourseIds(op.results)
               /\ op.scored[k].final_score = op.results[j].final_score)
              => InputPosition(op.results[j].course_id) < k

\* C22: when the all-ratings entry is missing or expired, the next
\* find_similar_users_cached of any user returns the similarities of the
\* ratings now in the store, which the call loads.
C22_FreshRatingsAfterRemoval ==
    (op.name = "find_similar_users_cached" /\ ~op.ratings_cached)
    => op.ret = IF op.user_id \in StoreMatrix.index
                THEN similar_users_of(StoreMatrix, op.user_id, op.top_n)
                ELSE EmptySeries

\* C23 as stated: an entry of a global table (items, item-tag associations,
\* all ratings) set less than 600 s ago is served without a store call.
C23_AsStated ==
    (/\ op.name = "consume" /\ op.stored
     /\ op.call.key[1] \in {"courses", "course_tags", "all_ratings"}
     /\ op.age < 600)
    => op.served

\* The ttl each key class is read with.
ClassTtl(class) ==
    CASE class \in {"courses", "course_tags"} -> 600
      [] class \in {"all_ratings", "tag_profile_", "similar_users_"} -> 300
      [] class \in {"history_", "ratings_"} -> 60

\* C23: every consumer reads its key class with a fixed ttl - items and
\* item-tag associations 600 s, all ratings, tag profile and similar users
\* 300 s, history and ratings of a user 60 s - and a stored entry is served
\* without a store call exactly when it was set less than that ttl ago.
C23_FixedTtlPerKeyClass ==
    (op.name = "consume" /\ op.stored)
    => (op.served <=> op.age < ClassTtl(op.call.key[1]))

\* C23 witness: an all-ratings entry set 300 s ago or more, but less than
\* 600 s ago, is not served.
C23_Witness ==
    /\ op.name = "consume" /\ op.stored
    /\ op.call.key = AllRatingsKey
    /\ op.age >= 300 /\ op.age < 600
    /\ ~op.served

\* C24: for a user without ratings every item get_recommendations returns
\* has collaborative score 0 and confidence 'medium'; when moreover the user
\* has no history and the catalog is untagged with distinct average
\* ratings, the result is the top_n items by average rating, in descending
\* order of average rating.
C24_ColdStartByPopularity ==
    (/\ op.name = "get_recommendations" /\ op.raised = None
     /\ \A r \in storeRatings : r.user_id # op.user_id)
    => /\ \A i \in DOMAIN op.results :
              /\ op.results[i].collab_score = 0
              /\ op.results[i].confidence = "medium"
       /\ (/\ storeHistory[op.user_id] = {}
           /\ storeCourseTags = <<>>
           /\ \A i, j \in DOMAIN storeCourses :
                  i # j => storeCourses[i].rating # storeCourses[j].rating)
          => /\ Len(op.results) = IF op.top_n < Len(storeCourses)
                                  THEN op.top_n ELSE Len(storeCourses)
             /\ \A i \in 1..(Len(op.results) - 1) :
                    op.results[i].avg_rating > op.results[i + 1].avg_rating
             /\ \A k \in DOMAIN storeCourses, j \in DOMAIN op.results :
                    storeCourses[k].id \notin CourseIds(op.results)
                    => storeCourses[k].rating < op.results[j].avg_rating
             /\ \A j \in DOMAIN op.results : \E k \in DOMAIN storeCourses :
                    /\ storeCourses[k].id = op.results[j].course_id
                    /\ op.results[j].avg_rating =
                          IF storeCourses[k].rating = NaN THEN 0 ELSE storeCourses[k].rating

\* C24 witness: a cold-start request for 2 of 3 untagged items returns the
\* two with the highest average rating.
C24_Witness ==
    /\ op.name = "get_recommendations" /\ op.raised = None
    /\ \A r \in storeRatings : r.user_id # op.user_id
    /\ \E r \in storeRatings : r.user_id # op.user_id
    /\ storeHistory[op.user_id] = {}
    /\ storeCourseTags = <<>>
    /\ Len(storeCourses) = 3
    /\ op.top_n = 2
    /\ Len(op.results) = 2
    /\ op.results[1].avg_rating > op.results[2].avg_rating

\* The target of the last call has a row in the matrix and it is all zero.
AllZeroTarget ==
    /\ op.user_id \in StoreMatrix.index
    /\ Dot(StoreMatrix, op.user_id, op.user_id) = 0

\* C25: predict_ratings_collaborative never divides by zero: it does not
\* raise, every similar user that contributes to a prediction has a
\* similarity above 0.05, so that the sum of the similarities is positive,
\* and a target whose row is all zero has no similar user and no prediction.
C25_NoSignalNotDivisionByZero ==
    op.name = "predict_ratings_collaborative"
    => /\ op.raised = None
       /\ \A c \in DOMAIN op.ret :
             /\ SumFn([r \in Contributing(c) |-> op.similar_users[r.user_id]],
                       Contributing(c)) > 0
             /\ \A r \in Contributing(c) :
                   /\ op.similar_users[r.user_id] >= 50
                   /\ 400 * Dot(StoreMatrix, op.user_id, r.user_id)
                           * Dot(StoreMatrix, op.user_id, r.user_id)
                        > Dot(StoreMatrix, op.user_id, op.user_id)
                           * Dot(StoreMatrix, r.user_id, r.user_id)
       /\ AllZeroTarget => (op.similar_users = EmptySeries /\ op.ret = EmptySeries)

\* C25 witness: a target with an all-zero row, while other users have rated
\* a candidate course, gets no prediction.
C25_Witness ==
    /\ op.name = "predict_ratings_collaborative"
    /\ AllZeroTarget
    /\ \E r \in op.all_ratings :
          r.user_id # op.user_id /\ r.course_id \in op.candidate_courses /\ r.rating > 0
    /\ op.ret = EmptySeries

\* Every rating sub-criterion in the store is in [1, 5] and every average
\* rating of the catalog is in [0, 5] or missing.
RatingsInRange ==
    /\ \A r \in storeRatings :
          \A q \in {r.lecturer, r.material, r.grading, r.joy} : 1 <= q /\ q <= 5
    /\ \A k \in DOMAIN storeCourses :
          \/ storeCourses[k].rating = NaN
          \/ 0 <= storeCourses[k].rating /\ storeCourses[k].rating <= 5000

\* C26: with the default weights, ratings in [1, 5] and average ratings in
\* [0, 5], the final score of every returned recommendation lies in [0, 5]
\* (final scores in ten-thousandths).
C26_FinalScoreWithinFive ==
    (op.name = "get_recommendations" /\ op.raised = None /\ RatingsInRange)
    => \A i \in DOMAIN op.results :
          0 <= op.results[i].final_score /\ op.results[i].final_score <= 50000

\* C26 witness: a request returns an item with a collaborative score and an
\* item without, one of them with the largest content score 5.0.
C26_Witness ==
    /\ op.name = "get_recommendations" /\ op.raised = None /\ RatingsInRange
    /\ \E i, j \in DOMAIN op.results :
          /\ op.results[i].confidence = "high"
          /\ op.results[j].confidence = "medium"
          /\ op.results[i].final_score > 0 /\ op.results[j].final_score > 0
    /\ \E i \in DOMAIN op.results : op.results[i].content_score = 5000

\* C27: a load of U's ratings that starts after invalidate_user(U), with no
\* change of U's ratings since, returns the ratings now in the store, also
\* when another load of U was in flight during the change (such a later
\* load can differ from the store only by being served from the cache).
C27_NoStaleLoadAfterInvalidate ==
    (op.name = "load_user_ratings" /\ op.hit /\ op.invalidated)
    => op.ret = RatingRows(op.user_id)

\* C28: a get(k, ttl) that returns a value leaves k's value and timestamp
\* as the last set(k, .) stored them, and that set is less than ttl old,
\* however many reads came in between.
C28_HitDoesNotRefresh ==
    (op.name = "get" /\ op.ret # None)
    => /\ lastSet[op.key].valid
       /\ op.ret = lastSet[op.key].val
       /\ op.time - lastSet[op.key].time < op.ttl
       /\ op.key \in DOMAIN cache /\ op.key \in DOMAIN timestamps
       /\ cache[op.key] = lastSet[op.key].val
       /\ timestamps[op.key] = lastSet[op.key].time

\* C28 witness: a value is returned some time after its set, the timestamp
\* still being the time of the set.
C28_Witness ==
    /\ op.name = "get" /\ op.ret # None
    /\ op.time > lastSet[op.key].time
    /\ timestamps[op.key] = lastSet[op.key].time

\* C30: the value map and the timestamp map have the same keys.
C30_SameKeys == DOMAIN cache = DOMAIN timestamps

\* C30 witness: a read has just evicted an expired key from both maps while
\* another key is stored in both.
C30_Witness ==
    /\ op.name = "get" /\ op.stored /\ op.ret = None
    /\ op.key \notin DOMAIN cache /\ op.key \notin DOMAIN timestamps
    /\ \E k \in Keys : k \in DOMAIN cache /\ k \in DOMAIN timestamps

\* An entry of the cache is within the ttl its consumer reads it with.
Fresh(key) == now - timestamps[key] < ClassTtl(key[1])

\* C29: a get_recommendations call leaves every fresh entry with its value
\* and timestamp; it writes only keys that were missing or expired and
\* removes only expired entries.
C29_FreshEntriesUntouched ==
    [][op'.name = "get_recommendations"
       => /\ \A k \in DOMAIN cache :
                Fresh(k) => /\ k \in DOMAIN cache'
                            /\ cache'[k] = cache[k]
                            /\ timestamps'[k] = timestamps[k]
          /\ \A k \in op'.written : k \notin DOMAIN cache \/ ~Fresh(k)
          /\ \A k \in DOMAIN cache \ DOMAIN cache' : ~Fresh(k)]_vars

\* C29 witness: a call has reloaded an expired entry and kept an older,
\* still fresh one as it was.
C29_Witness ==
    /\ op.name = "get_recommendations"
    /\ HistoryKey(op.user_id) \in op.written
    /\ ~op.history_cached
    /\ CoursesKey \in DOMAIN cache \ op.written
    /\ timestamps[CoursesKey] < now

====
